---- MODULE Spec2Model ----
(***************************************************************************)
(* Bounded cache engine (CacheService), the two zustand stores             *)
(* (useAppStore.ts, useAppStore.optimized.ts) and the useEditHistory hook  *)
(* of the manga translator front end, as state machines.                   *)
(*                                                                         *)
(* Each component has its own specification (SpecCache, SpecStore,         *)
(* SpecHook); a specification leaves the other components' variables at    *)
(* their initial values.                                                   *)
(***************************************************************************)
EXTENDS Integers, Sequences, FiniteSets, TLC

VARIABLES
    \* ---- CacheService (src/unnamed/part_008:403-578)
    cache,          \* Map<string, CacheEntry>: entries in Map insertion order
    currentSize,    \* private currentSize
    cleanupTimer,   \* TRUE while the setInterval sweep is armed
    clock,          \* the latest Date.now() reading (non-decreasing)
    hung,           \* TRUE when set() is spinning in its eviction loop
    cOp,            \* observation: name of the last CacheService call
    cKey,           \* observation: its key argument
    cRet,           \* observation: its return value (<<>> is null / void)
    cNow,           \* observation: the Date.now() reading its expiry test used
    cFound,         \* observation: the entry it looked up, <<>> when absent
    cEvicted,       \* observation: keys the last set() evicted, or the last sweep
                    \* removed, in order
    callsLeft,      \* number of CacheService calls the behaviour may still make
    \* ---- zustand store (src/fe/src/store/useAppStore.ts, useAppStore.optimized.ts)
    variant,          \* the store module in use: "basic" or "optimized"
    project,          \* <<>> is null, <<p>> a TranslationProject
    currentPageIndex,
    selectedTextBox,  \* <<>> is null, <<[pageId, textBoxId]>> a selection
    history,          \* EditAction[]
    historyIndex,
    settings,         \* AppSettings
    sRet,             \* observation: the value the last store call returned
                      \* (<<>> is null or void, <<a>> the action a)
    \* ---- useEditHistory (src/unnamed/part_003:1-57)
    hookHistory,      \* the history state as of the last render
    currentIndex,     \* the currentIndex state as of the last render
    maxHistory,       \* the hook's argument
    pendingHistory,   \* setHistory updates queued since the last render
    pendingIndex,     \* setCurrentIndex updates queued since the last render
    hCalls,           \* observation: the calls made since the last render, with
                      \* the value each returned (<<>> is null or void)
    hUndone,          \* observation: <<r>> when the last rendered event was a lone
                      \* undo() made at currentIndex >= 0; r holds the state
                      \* it was made in and the value it returned
    \* ---- ImageCacheService.cacheImage (src/unnamed/part_008:590-614)
    service,          \* the service a behaviour of SpecPopulate exercises
    iInflight,        \* cache keys of the cacheImage calls awaiting compressImage
    iOp,              \* observation: what the last cacheImage step did
    iKey,             \* observation: its cache key
    iRet,             \* observation: <<p>> when it settled its promise as p
    iFailed,          \* observation: the keys whose compression has failed so far
    \* ---- TranslationService (src/fe/src/services/translationService.ts:217-352)
    tCache,           \* this.cache: key -> <<>> (absent) or <<TranslationResult>>
    tExpiry,          \* this.cacheExpiry: key -> <<>> (absent) or <<time>>
    providers,        \* this.providers of the translation service, in list order
    tInflight,        \* the translate calls awaiting a provider
    tOp,              \* observation: what the last translate step did
    tKey,             \* observation: its cache key
    tRet,              \* observation: <<p>> when it settled its promise as p
    \* App (handleFilesSelected)
    isProcessing,     \* the store's isProcessing flag
    uploadProgress,   \* the uploadProgress state of App
    appStage,         \* where handleFilesSelected stands: "idle", the await it
                      \* waits at ("read", "detect", "translate"), or "done"
    appFiles,         \* files.length of the running call
    fileIndex,        \* the loop variable i, counted from 1
    appPages,         \* the local array pages
    appBoxes,         \* the text boxes detected for file i
    appPending,       \* translateText calls of file i not yet settled
    appTimer,         \* the 2 s timeout that hides the progress is pending
    \* useAsyncOperation
    isLoading,        \* the isLoading state
    error,            \* the error state: <<>> for null, else <<message>>
    pending,          \* the options of the execute calls whose operation is pending
    asyncRet,         \* observation: <<p>> when execute last settled its promise as p
    onErrorArg,       \* observation: <<err>> when that call passed err to onError
    \* ---- WorkerService (src/fe/src/services/workerService.ts)
    worker,           \* this.worker is set (and isInitialized is true)
    tasks,            \* the ids in the Map this.tasks
    timers,           \* the ids whose 60 s timeout has been set and has not fired
    promises,         \* per task submitted, in order: the promise executeTask
                      \* returned and how often its resolve or reject was called
    \* ---- OCRCacheService (src/unnamed/part_008:692-715), on the cache above
    ocrCalls          \* observation: the <<imageUrl, language>> of the
                      \* cacheOCRResult calls made so far

cacheVars == <<cache, currentSize, cleanupTimer, clock, hung,
               cOp, cKey, cRet, cNow, cFound, cEvicted, callsLeft>>

storeVars == <<variant, project, currentPageIndex, selectedTextBox,
               history, historyIndex, settings, sRet>>

hookVars == <<hookHistory, currentIndex, maxHistory, pendingHistory,
              pendingIndex, hCalls, hUndone>>

imageVars == <<iInflight, iOp, iKey, iRet, iFailed>>

transVars == <<tCache, tExpiry, providers, tInflight, tOp, tKey, tRet>>

appVars == <<isProcessing, uploadProgress, appStage, appFiles, fileIndex, appPages,
             appBoxes, appPending, appTimer>>

asyncVars == <<isLoading, error, pending, asyncRet, onErrorArg>>
workerVars == <<worker, tasks, timers, promises>>

vars == <<cacheVars, storeVars, hookVars, service, imageVars, transVars, appVars, asyncVars,
          workerVars, ocrCalls>>

----------------------------------------------------------------------------
\* Bounds of the model

\* Date.now() readings range over 0..MaxTime
MaxTime == 2

\* a behaviour of SpecCache makes at most MaxCalls CacheService calls
MaxCalls == 3

\* a behaviour of SpecCacheLong makes at most MaxCallsLong CacheService calls
MaxCallsLong == 4

----------------------------------------------------------------------------
\* CacheService: configuration and inputs

\* options.maxSize, as in the end-to-end scenario (three entries of 400)
maxSize == 1000

\* options.defaultTTL, in clock ticks
defaultTTL == 2

\* keys passed to the cache; the empty string is a legal Map key
Keys == {"", "k1", "k2", "k3"}

\* the (data, ttl, size) arguments of the set() calls made; <<>> is an
\* omitted (undefined) optional argument
SetArgs == { <<"v1", <<>>, <<400>>>>,
             <<"v2", <<1>>, <<>>>>,
             <<"v1", <<0>>, <<1200>>>> }

\* JavaScript truthiness of an optional number
Truthy(opt) == opt # <<>> /\ opt[1] # 0

\* JSON.stringify of a string without characters that need escaping
JSONstringify(data) == "\"" \o data \o "\""

\* estimateSize: twice the length of the JSON text
estimateSize(data) == Len(JSONstringify(data)) * 2

\* the Map's keys in iteration order
keys(c) == [i \in 1..Len(c) |-> c[i].key]

\* position of key k in the Map, 0 when absent
IndexOf(c, k) ==
    IF \E i \in 1..Len(c) : c[i].key = k
    THEN CHOOSE i \in 1..Len(c) : c[i].key = k
    ELSE 0

\* Map.delete of the entry at position i
RemoveAt(c, i) == [j \in 1..(Len(c) - 1) |-> IF j < i THEN c[j] ELSE c[j + 1]]

\* sum of the size fields of the entries of c
RECURSIVE SumSizes(_)
SumSizes(c) == IF c = <<>> THEN 0 ELSE c[1].size + SumSizes(Tail(c))

\* delete(key) that forgets `this.currentSize -= entry.size'
CacheService_delete_keepsSize(st, k) ==
    LET i == IndexOf(st.cache, k) IN
    IF i # 0
    THEN [cache |-> RemoveAt(st.cache, i), size |-> st.size]
    ELSE st

\* delete(key) on the pair st = [cache, size]
CacheService_delete(st, k) ==
    LET i == IndexOf(st.cache, k) IN
    IF i # 0
    THEN [cache |-> RemoveAt(st.cache, i), size |-> st.size - st.cache[i].size]
    ELSE st

\* the loop of evictLeastRecentlyUsed with `<=' for `<': the last of the
\* entries with the minimal timestamp
OldestIndex_lastTie(c) ==
    CHOOSE i \in 1..Len(c) :
        /\ \A j \in 1..Len(c) : c[i].timestamp <= c[j].timestamp
        /\ \A j \in (i + 1)..Len(c) : c[j].timestamp > c[i].timestamp

\* the loop of evictLeastRecentlyUsed: the first entry, in iteration order,
\* whose timestamp is strictly below every earlier one and not above any
\* later one
OldestIndex(c) ==
    CHOOSE i \in 1..Len(c) :
        /\ \A j \in 1..Len(c) : c[i].timestamp <= c[j].timestamp
        /\ \A j \in 1..(i - 1) : c[j].timestamp > c[i].timestamp

\* evictLeastRecentlyUsed on st (the Map is non-empty): `if (oldestKey)'
\* is false for the empty-string key, which is then not deleted
evictLeastRecentlyUsed(st) ==
    LET oldestKey == st.cache[OldestIndex(st.cache)].key IN
    IF oldestKey # "" THEN CacheService_delete(st, oldestKey) ELSE st

\* set() with `if' for `while': at most one eviction
EvictLoop_once(st, entrySize, evicted) ==
    IF st.size + entrySize > maxSize /\ Len(st.cache) > 0
    THEN LET nxt == evictLeastRecentlyUsed(st) IN
         [cache |-> nxt.cache, size |-> nxt.size,
          evicted |-> IF nxt = st THEN evicted
                      ELSE Append(evicted, st.cache[OldestIndex(st.cache)].key),
          hung |-> FALSE]
    ELSE [cache |-> st.cache, size |-> st.size, evicted |-> evicted, hung |-> FALSE]

\* the while loop of set(): evict until the entry fits or the Map is empty;
\* hung when an iteration removes nothing (the loop then never ends)
RECURSIVE EvictLoop(_, _, _)
EvictLoop(st, entrySize, evicted) ==
    IF st.size + entrySize > maxSize /\ Len(st.cache) > 0
    THEN LET nxt == evictLeastRecentlyUsed(st) IN
         IF nxt = st
         THEN [cache |-> st.cache, size |-> st.size, evicted |-> evicted, hung |-> TRUE]
         ELSE EvictLoop(nxt, entrySize,
                        Append(evicted, st.cache[OldestIndex(st.cache)].key))
    ELSE [cache |-> st.cache, size |-> st.size, evicted |-> evicted, hung |-> FALSE]

\* the entry cache.get(key) returns, <<>> when there is none
Found(key) == IF IndexOf(cache, key) # 0 THEN <<cache[IndexOf(cache, key)]>> ELSE <<>>

\* an expiry test that compares with the touch timestamp instead
Expired_byTimestamp(entry, now) == now > entry.timestamp

\* the expiry test of get, has and cleanup: `now > entry.expires'
Expired(entry, now) == now > entry.expires

\* the later Date.now() readings of one call: time may pass between two reads
LaterReadings == {t \in {clock, clock + 1} : t <= MaxTime}

----------------------------------------------------------------------------
\* CacheService: operations

CacheInit(budget) ==
    /\ cache = <<>>
    /\ currentSize = 0
    /\ cleanupTimer = TRUE
    /\ clock = 0
    /\ hung = FALSE
    /\ cOp = "new"
    /\ cKey = ""
    /\ cRet = <<>>
    /\ cNow = 0
    /\ cFound = <<>>
    /\ cEvicted = <<>>
    /\ callsLeft = budget

\* a call starts: the thread is not stuck in set(), and the call budget allows it
Called ==
    /\ ~hung
    /\ callsLeft > 0
    /\ callsLeft' = callsLeft - 1

\* time passes between two calls
Tick ==
    /\ ~hung
    /\ clock < MaxTime
    /\ clock' = clock + 1
    /\ UNCHANGED <<cache, currentSize, cleanupTimer, hung, cOp, cKey, cRet, cNow, cFound, cEvicted, callsLeft>>

\* set(key, data, ttl?, size?)
CacheService_set(key, data, ttl, size, now2) ==
    LET entrySize == IF Truthy(size) THEN size[1] ELSE estimateSize(data)
        expires   == clock + (IF Truthy(ttl) THEN ttl[1] ELSE defaultTTL)
        st0       == [cache |-> cache, size |-> currentSize]
        st1       == IF IndexOf(cache, key) # 0 THEN CacheService_delete(st0, key) ELSE st0
        res       == EvictLoop(st1, entrySize, <<>>)
        entry     == [key |-> key, data |-> data, timestamp |-> now2,
                      size |-> entrySize, expires |-> expires]
    IN
    /\ Called
    /\ cOp' = "set"
    /\ cKey' = key
    /\ cRet' = <<>>
    /\ cNow' = clock
    /\ cFound' = Found(key)
    /\ cEvicted' = res.evicted
    /\ hung' = res.hung
    /\ IF res.hung
       THEN /\ cache' = res.cache
            /\ currentSize' = res.size
            /\ clock' = clock
       ELSE /\ cache' = Append(res.cache, entry)
            /\ currentSize' = res.size + entrySize
            /\ clock' = now2
    /\ UNCHANGED cleanupTimer

\* get(key)
CacheService_get(key, now2) ==
    LET i  == IndexOf(cache, key)
        st == [cache |-> cache, size |-> currentSize]
    IN
    /\ Called
    /\ cOp' = "get"
    /\ cKey' = key
    /\ cNow' = clock
    /\ cFound' = Found(key)
    /\ cEvicted' = <<>>
    /\ IF i = 0
       THEN /\ cRet' = <<>>
            /\ UNCHANGED <<cache, currentSize, clock>>
       ELSE IF Expired(cache[i], clock)
       THEN /\ cache' = CacheService_delete(st, key).cache
            /\ currentSize' = CacheService_delete(st, key).size
            /\ cRet' = <<>>
            /\ UNCHANGED clock
       ELSE /\ cache' = [cache EXCEPT ![i].timestamp = now2]
            /\ cRet' = <<cache[i].data>>
            /\ clock' = now2
            /\ UNCHANGED currentSize
    /\ UNCHANGED <<cleanupTimer, hung>>

\* has(key)
CacheService_has(key) ==
    LET i  == IndexOf(cache, key)
        st == [cache |-> cache, size |-> currentSize]
    IN
    /\ Called
    /\ cOp' = "has"
    /\ cKey' = key
    /\ cNow' = clock
    /\ cFound' = Found(key)
    /\ cEvicted' = <<>>
    /\ IF i = 0
       THEN /\ cRet' = <<FALSE>>
            /\ UNCHANGED <<cache, currentSize>>
       ELSE IF Expired(cache[i], clock)
       THEN /\ cache' = CacheService_delete(st, key).cache
            /\ currentSize' = CacheService_delete(st, key).size
            /\ cRet' = <<FALSE>>
       ELSE /\ cRet' = <<TRUE>>
            /\ UNCHANGED <<cache, currentSize>>
    /\ UNCHANGED <<cleanupTimer, hung, clock>>

\* delete(key), called from outside
DeleteKey(key) ==
    LET st == [cache |-> cache, size |-> currentSize] IN
    /\ Called
    /\ cOp' = "delete"
    /\ cKey' = key
    /\ cNow' = clock
    /\ cFound' = Found(key)
    /\ cEvicted' = <<>>
    /\ cRet' = <<IndexOf(cache, key) # 0>>
    /\ cache' = CacheService_delete(st, key).cache
    /\ currentSize' = CacheService_delete(st, key).size
    /\ UNCHANGED <<cleanupTimer, hung, clock>>

\* clear() on st
CacheService_clear(st) == [cache |-> <<>>, size |-> 0]

\* clear(), called from outside
Clear ==
    LET st == [cache |-> cache, size |-> currentSize] IN
    /\ Called
    /\ cOp' = "clear"
    /\ cKey' = ""
    /\ cNow' = clock
    /\ cFound' = <<>>
    /\ cEvicted' = <<>>
    /\ cRet' = <<>>
    /\ cache' = CacheService_clear(st).cache
    /\ currentSize' = CacheService_clear(st).size
    /\ UNCHANGED <<cleanupTimer, hung, clock>>

\* cleanup() on st at time now: collect the expired keys, then delete each
RECURSIVE DeleteAll(_, _)
DeleteAll(st, ks) ==
    IF ks = <<>> THEN st ELSE DeleteAll(CacheService_delete(st, ks[1]), Tail(ks))

\* a sweep that deletes every entry, expired or not
CacheService_cleanup_all(st, now) == DeleteAll(st, keys(st.cache))

CacheService_cleanup(st, now) ==
    LET keysToDelete == SelectSeq(keys(st.cache),
                          LAMBDA k : Expired(st.cache[IndexOf(st.cache, k)], now))
    IN DeleteAll(st, keysToDelete)

\* the interval timer fires and runs cleanup()
Cleanup ==
    LET st == [cache |-> cache, size |-> currentSize] IN
    /\ Called
    /\ cleanupTimer
    /\ cOp' = "cleanup"
    /\ cKey' = ""
    /\ cNow' = clock
    /\ cFound' = <<>>
    /\ cEvicted' = SelectSeq(keys(cache),
                    LAMBDA k : IndexOf(CacheService_cleanup(st, clock).cache, k) = 0)
    /\ cRet' = <<>>
    /\ cache' = CacheService_cleanup(st, clock).cache
    /\ currentSize' = CacheService_cleanup(st, clock).size
    /\ UNCHANGED <<cleanupTimer, hung, clock>>

\* destroy(): cancel the timer, then clear()
CacheService_destroy ==
    LET st == [cache |-> cache, size |-> currentSize] IN
    /\ Called
    /\ cOp' = "destroy"
    /\ cKey' = ""
    /\ cNow' = clock
    /\ cFound' = <<>>
    /\ cEvicted' = <<>>
    /\ cRet' = <<>>
    /\ cleanupTimer' = FALSE
    /\ cache' = CacheService_clear(st).cache
    /\ currentSize' = CacheService_clear(st).size
    /\ UNCHANGED <<hung, clock>>

SetCall == \E key \in Keys, a \in SetArgs, now2 \in LaterReadings :
              CacheService_set(key, a[1], a[2], a[3], now2)

GetCall == \E key \in Keys, now2 \in LaterReadings : CacheService_get(key, now2)

HasCall == \E key \in Keys : CacheService_has(key)

DeleteCall == \E key \in Keys : DeleteKey(key)

\* a step of the cache leaves the store and the hook alone
CacheOnly == UNCHANGED <<storeVars, hookVars, service, imageVars, transVars, appVars, asyncVars, workerVars, ocrCalls>>

CacheNext ==
    \/ Tick /\ CacheOnly
    \/ SetCall /\ CacheOnly
    \/ GetCall /\ CacheOnly
    \/ HasCall /\ CacheOnly
    \/ DeleteCall /\ CacheOnly
    \/ Clear /\ CacheOnly
    \/ Cleanup /\ CacheOnly
    \/ CacheService_destroy /\ CacheOnly

----------------------------------------------------------------------------
\* Store: bounds, configuration and inputs

\* settings.maxHistorySteps ranges over 1..MaxSteps
MaxSteps == 2

\* a page holds at most MaxBoxes text boxes
MaxBoxes == 1

\* Date.now() as read by the store's edits; loaded projects carry lastModified 0
StoreNow == 1

\* the object literal {}
EmptyObject == <<>>

\* the value of an array read past its bounds
UndefinedAction == [type |-> "undefined"]

TextBoxA == [id |-> "t1", translatedText |-> "x"]

ProjA == [id |-> "A", lastModified |-> 0,
          pages |-> << [id |-> "p1", textBoxes |-> <<TextBoxA>>] >>]

ProjB == [id |-> "B", lastModified |-> 0,
          pages |-> << [id |-> "p1", textBoxes |-> <<>>] >>]

\* arguments of setProject, and the persisted project the store may start from
Projects == {<<>>, <<ProjA>>, <<ProjB>>}

\* page and text box ids passed to the edits; no page has the id "p2" and no
\* text box the id "t2"
PageIds == {"p1", "p2"}
TextBoxIds == {"t1", "t2"}

\* Partial<TextBox> arguments of updateTextBox
Updates == { [translatedText |-> "y"] }

\* TextBox arguments of addTextBox
NewTextBoxes == {TextBoxA}

\* arguments of setSelectedTextBox
Selections == {<<>>, << [pageId |-> "p1", textBoxId |-> "t1"] >>}

\* the action ImageViewer records when a drag ends
MoveAction == [type |-> "move", pageId |-> "p1", textBoxId |-> "t1",
               before |-> EmptyObject, after |-> EmptyObject]

\* arguments of updateSettings
StepSettings == 1..MaxSteps

----------------------------------------------------------------------------
\* Store: helpers

\* { ...a, ...b } and Object.assign(a, b)
Spread(a, b) == [f \in (DOMAIN a) \cup (DOMAIN b) |-> IF f \in DOMAIN b THEN b[f] ELSE a[f]]

\* Array.prototype.slice(0, end)
Slice(s, end) ==
    LET e == IF end < 0 THEN (IF Len(s) + end < 0 THEN 0 ELSE Len(s) + end)
             ELSE (IF end > Len(s) THEN Len(s) ELSE end)
    IN  SubSeq(s, 1, e)

\* array[i] with a 0-based index: <<undefined>> outside the array
ActionAt(h, i) == IF i + 1 \in DOMAIN h THEN h[i + 1] ELSE UndefinedAction

\* Array.prototype.find on ids: the index of the first match, 0 when none
FindId(s, id) ==
    IF \E i \in 1..Len(s) : s[i].id = id
    THEN CHOOSE i \in 1..Len(s) : s[i].id = id /\ \A j \in 1..(i - 1) : s[j].id # id
    ELSE 0

\* pages.find(p => p.id === pageId)?.textBoxes.find(tb => tb.id === textBoxId),
\* <<>> when the project, the page or the box is missing
getTextBoxById(proj, pageId, textBoxId) ==
    IF proj = <<>> THEN <<>>
    ELSE LET p == FindId(proj[1].pages, pageId)
         IN  IF p = 0 THEN <<>>
             ELSE LET b == FindId(proj[1].pages[p].textBoxes, textBoxId)
                  IN  IF b = 0 THEN <<>> ELSE << proj[1].pages[p].textBoxes[b] >>

\* the store's state as one record
StoreState == [project |-> project, currentPageIndex |-> currentPageIndex,
               selectedTextBox |-> selectedTextBox, history |-> history,
               historyIndex |-> historyIndex, settings |-> settings]

\* set(...): the variables take the fields of st
Commit(st) ==
    /\ project' = st.project
    /\ currentPageIndex' = st.currentPageIndex
    /\ selectedTextBox' = st.selectedTextBox
    /\ history' = st.history
    /\ historyIndex' = st.historyIndex
    /\ settings' = st.settings
    /\ UNCHANGED variant

----------------------------------------------------------------------------
\* Store: history operations, as functions of the state record

\* useAppStore.ts addToHistory
basic_addToHistory(st, action) ==
    LET pushed     == Append(Slice(st.history, st.historyIndex + 1), action)
        newHistory == IF Len(pushed) > st.settings.maxHistorySteps THEN Tail(pushed) ELSE pushed
    IN  [st EXCEPT !.history = newHistory, !.historyIndex = Len(newHistory) - 1]

\* useAppStore.optimized.ts addToHistory, with the index assignment of the
\* non-overflow branch made in both branches
optimized_addToHistory_reindex(st, action) ==
    LET kept   == IF st.historyIndex < Len(st.history) - 1
                  THEN Slice(st.history, st.historyIndex + 1) ELSE st.history
        pushed == Append(kept, action)
    IN  IF Len(pushed) > st.settings.maxHistorySteps
        THEN [st EXCEPT !.history = Tail(pushed), !.historyIndex = Len(pushed) - 1]
        ELSE [st EXCEPT !.history = pushed, !.historyIndex = Len(pushed) - 1]

\* useAppStore.optimized.ts addToHistory
optimized_addToHistory(st, action) ==
    LET kept   == IF st.historyIndex < Len(st.history) - 1
                  THEN Slice(st.history, st.historyIndex + 1) ELSE st.history
        pushed == Append(kept, action)
    IN  IF Len(pushed) > st.settings.maxHistorySteps
        THEN [st EXCEPT !.history = Tail(pushed)]
        ELSE [st EXCEPT !.history = pushed, !.historyIndex = Len(pushed) - 1]

\* get().addToHistory(action) of the store in use
StoreAdd(st, action) ==
    IF variant = "basic" THEN basic_addToHistory(st, action)
    ELSE optimized_addToHistory(st, action)

canUndo(st) == st.historyIndex >= 0

canRedo(st) == st.historyIndex < Len(st.history) - 1

----------------------------------------------------------------------------
\* Store: edits, as functions of the state record

\* pages.map(page => page.id === pageId ? { ...page, textBoxes: ... } : page),
\* newBoxes[i] being the new text boxes of page i
MapPage(pages, pageId, newBoxes) ==
    [i \in 1..Len(pages) |->
        IF pages[i].id = pageId THEN [pages[i] EXCEPT !.textBoxes = newBoxes[i]] ELSE pages[i]]

\* the same update applied to the first page with that id only
FirstPage(pages, pageId, newBoxes) ==
    [i \in 1..Len(pages) |->
        IF i = FindId(pages, pageId) THEN [pages[i] EXCEPT !.textBoxes = newBoxes[i]]
        ELSE pages[i]]

\* set({ project: { ...state.project, pages, lastModified: Date.now() } })
WithPages(st, pages) ==
    [st EXCEPT !.project = << [st.project[1] EXCEPT !.pages = pages, !.lastModified = StoreNow] >>]

\* an EditAction with its two sides exchanged
EditOf_swapped(type, pageId, textBoxId, before, after) ==
    [type |-> type, pageId |-> pageId, textBoxId |-> textBoxId,
     before |-> after, after |-> before]

\* the EditAction literal the edits pass to addToHistory
EditOf(type, pageId, textBoxId, before, after) ==
    [type |-> type, pageId |-> pageId, textBoxId |-> textBoxId,
     before |-> before, after |-> after]

\* useAppStore.ts updateTextBox
basic_updateTextBox(st, pageId, textBoxId, updates) ==
    LET oldTextBox == getTextBoxById(st.project, pageId, textBoxId)
        newTextBox == Spread(oldTextBox[1], updates)
        pages      == st.project[1].pages
        replace(boxes) == [j \in 1..Len(boxes) |->
                              IF boxes[j].id = textBoxId THEN newTextBox ELSE boxes[j]]
        replaced   == [i \in 1..Len(pages) |-> replace(pages[i].textBoxes)]
    IN  IF st.project = <<>> THEN st
        ELSE IF oldTextBox = <<>> THEN st
        ELSE basic_addToHistory(WithPages(st, MapPage(pages, pageId, replaced)),
                                EditOf("edit", pageId, textBoxId, oldTextBox[1], newTextBox))

\* useAppStore.optimized.ts updateTextBox
optimized_updateTextBox(st, pageId, textBoxId, updates) ==
    LET oldTextBox == getTextBoxById(st.project, pageId, textBoxId)
        pages      == st.project[1].pages
        assign(boxes) == [j \in 1..Len(boxes) |->
                             IF j = FindId(boxes, textBoxId) THEN Spread(boxes[j], updates)
                             ELSE boxes[j]]
        assigned   == [i \in 1..Len(pages) |-> assign(pages[i].textBoxes)]
    IN  IF oldTextBox = <<>> THEN st
        ELSE optimized_addToHistory(
                 WithPages(st, FirstPage(pages, pageId, assigned)),
                 EditOf("edit", pageId, textBoxId, oldTextBox[1], Spread(oldTextBox[1], updates)))

\* useAppStore.ts deleteTextBox
basic_deleteTextBox(st, pageId, textBoxId) ==
    LET textBox  == getTextBoxById(st.project, pageId, textBoxId)
        pages    == st.project[1].pages
        filtered == [i \in 1..Len(pages) |->
                        SelectSeq(pages[i].textBoxes, LAMBDA tb : tb.id # textBoxId)]
    IN  IF st.project = <<>> THEN st
        ELSE IF textBox = <<>> THEN st
        ELSE basic_addToHistory(
                 [WithPages(st, MapPage(pages, pageId, filtered))
                      EXCEPT !.selectedTextBox = <<>>],
                 EditOf("delete", pageId, textBoxId, textBox[1], EmptyObject))

\* useAppStore.optimized.ts deleteTextBox
optimized_deleteTextBox(st, pageId, textBoxId) ==
    LET textBox  == getTextBoxById(st.project, pageId, textBoxId)
        pages    == st.project[1].pages
        filtered == [i \in 1..Len(pages) |->
                        SelectSeq(pages[i].textBoxes, LAMBDA tb : tb.id # textBoxId)]
        removed  == WithPages(st, FirstPage(pages, pageId, filtered))
    IN  IF textBox = <<>> THEN st
        ELSE optimized_addToHistory(
                 IF st.selectedTextBox # <<>> /\ st.selectedTextBox[1].textBoxId = textBoxId
                 THEN [removed EXCEPT !.selectedTextBox = <<>>] ELSE removed,
                 EditOf("delete", pageId, textBoxId, textBox[1], EmptyObject))

\* useAppStore.ts addTextBox
basic_addTextBox(st, pageId, textBox) ==
    LET pages  == st.project[1].pages
        pushed == [i \in 1..Len(pages) |-> Append(pages[i].textBoxes, textBox)]
    IN  IF st.project = <<>> THEN st
        ELSE basic_addToHistory(WithPages(st, MapPage(pages, pageId, pushed)),
                                EditOf("add", pageId, textBox.id, EmptyObject, textBox))

\* useAppStore.optimized.ts addTextBox
optimized_addTextBox(st, pageId, textBox) ==
    LET pages  == st.project[1].pages
        pushed == [i \in 1..Len(pages) |-> Append(pages[i].textBoxes, textBox)]
        added  == IF st.project = <<>> THEN st
                  ELSE IF FindId(pages, pageId) = 0 THEN st
                  ELSE WithPages(st, FirstPage(pages, pageId, pushed))
    IN  optimized_addToHistory(added, EditOf("add", pageId, textBox.id, EmptyObject, textBox))

\* an undo that also drops the action it returns from the log
basic_undo_pops(st) ==
    IF st.historyIndex < 0 THEN [st |-> st, ret |-> <<>>]
    ELSE [st |-> [st EXCEPT !.historyIndex = st.historyIndex - 1,
                            !.history = Slice(st.history, st.historyIndex)],
          ret |-> << ActionAt(st.history, st.historyIndex) >>]

\* useAppStore.ts undo: the new state and the returned value
basic_undo(st) ==
    IF st.historyIndex < 0 THEN [st |-> st, ret |-> <<>>]
    ELSE [st |-> [st EXCEPT !.historyIndex = st.historyIndex - 1],
          ret |-> << ActionAt(st.history, st.historyIndex) >>]

\* useAppStore.ts redo
basic_redo(st) ==
    IF st.historyIndex >= Len(st.history) - 1 THEN [st |-> st, ret |-> <<>>]
    ELSE [st |-> [st EXCEPT !.historyIndex = st.historyIndex + 1],
          ret |-> << ActionAt(st.history, st.historyIndex + 1) >>]

\* useAppStore.optimized.ts undo
optimized_undo(st) ==
    IF ~canUndo(st) THEN [st |-> st, ret |-> <<>>]
    ELSE [st |-> [st EXCEPT !.historyIndex = @ - 1],
          ret |-> << ActionAt(st.history, st.historyIndex) >>]

\* useAppStore.optimized.ts redo
optimized_redo(st) ==
    LET nextIndex == st.historyIndex + 1
    IN  IF ~canRedo(st) THEN [st |-> st, ret |-> <<>>]
        ELSE [st |-> [st EXCEPT !.historyIndex = nextIndex],
              ret |-> << ActionAt(st.history, nextIndex) >>]

----------------------------------------------------------------------------
\* Store: operations

\* the store after construction and rehydration: persist restores settings and
\* project, the history starts empty
StoreInit ==
    /\ variant \in {"basic", "optimized"}
    /\ project \in Projects
    /\ currentPageIndex = 0
    /\ selectedTextBox = <<>>
    /\ history = <<>>
    /\ historyIndex = -1
    /\ settings \in [maxHistorySteps : StepSettings]
    /\ sRet = <<>>

\* the page with that id is missing or has room for another text box
HasRoom(pageId) ==
    IF project = <<>> THEN TRUE
    ELSE IF FindId(project[1].pages, pageId) = 0 THEN TRUE
    ELSE Len(project[1].pages[FindId(project[1].pages, pageId)].textBoxes) < MaxBoxes

setProject(p) ==
    /\ sRet' = <<>>
    /\ Commit(IF variant = "basic"
              THEN [StoreState EXCEPT !.project = p, !.currentPageIndex = 0,
                                      !.selectedTextBox = <<>>]
              ELSE [StoreState EXCEPT !.project = p, !.currentPageIndex = 0,
                                      !.selectedTextBox = <<>>,
                                      !.history = <<>>, !.historyIndex = -1])

setSelectedTextBox(selection) ==
    /\ sRet' = <<>>
    /\ Commit([StoreState EXCEPT !.selectedTextBox = selection])

updateTextBox(pageId, textBoxId, updates) ==
    /\ sRet' = <<>>
    /\ Commit(IF variant = "basic"
              THEN basic_updateTextBox(StoreState, pageId, textBoxId, updates)
              ELSE optimized_updateTextBox(StoreState, pageId, textBoxId, updates))

deleteTextBox(pageId, textBoxId) ==
    /\ sRet' = <<>>
    /\ Commit(IF variant = "basic"
              THEN basic_deleteTextBox(StoreState, pageId, textBoxId)
              ELSE optimized_deleteTextBox(StoreState, pageId, textBoxId))

addTextBox(pageId, textBox) ==
    /\ HasRoom(pageId)
    /\ sRet' = <<>>
    /\ Commit(IF variant = "basic"
              THEN basic_addTextBox(StoreState, pageId, textBox)
              ELSE optimized_addTextBox(StoreState, pageId, textBox))

addToHistory(action) ==
    /\ sRet' = <<>>
    /\ Commit(StoreAdd(StoreState, action))

undo ==
    LET r == IF variant = "basic" THEN basic_undo(StoreState) ELSE optimized_undo(StoreState)
    IN  /\ sRet' = r.ret
        /\ Commit(r.st)

redo ==
    LET r == IF variant = "basic" THEN basic_redo(StoreState) ELSE optimized_redo(StoreState)
    IN  /\ sRet' = r.ret
        /\ Commit(r.st)

clearHistory ==
    /\ sRet' = <<>>
    /\ Commit([StoreState EXCEPT !.history = <<>>, !.historyIndex = -1])

updateSettings(newSettings) ==
    /\ sRet' = <<>>
    /\ Commit([StoreState EXCEPT !.settings = Spread(settings, newSettings)])

SetProjectCall == \E p \in Projects : setProject(p)

SelectCall == \E selection \in Selections : setSelectedTextBox(selection)

UpdateTextBoxCall == \E pageId \in PageIds, textBoxId \in TextBoxIds, updates \in Updates :
                        updateTextBox(pageId, textBoxId, updates)

DeleteTextBoxCall == \E pageId \in PageIds, textBoxId \in TextBoxIds :
                        deleteTextBox(pageId, textBoxId)

AddTextBoxCall == \E pageId \in PageIds, textBox \in NewTextBoxes : addTextBox(pageId, textBox)

AddToHistoryCall == addToHistory(MoveAction)

UpdateSettingsCall == \E n \in StepSettings : updateSettings([maxHistorySteps |-> n])

\* a step of the store leaves the cache and the hook alone
StoreOnly == UNCHANGED <<cacheVars, hookVars, service, imageVars, transVars, appVars, asyncVars, workerVars, ocrCalls>>

StoreNext ==
    \/ SetProjectCall /\ StoreOnly
    \/ SelectCall /\ StoreOnly
    \/ UpdateTextBoxCall /\ StoreOnly
    \/ DeleteTextBoxCall /\ StoreOnly
    \/ AddTextBoxCall /\ StoreOnly
    \/ AddToHistoryCall /\ StoreOnly
    \/ undo /\ StoreOnly
    \/ redo /\ StoreOnly
    \/ clearHistory /\ StoreOnly
    \/ UpdateSettingsCall /\ StoreOnly

----------------------------------------------------------------------------
\* useEditHistory: bounds and inputs

\* the maxHistory argument ranges over 1..MaxHistory
MaxHistory == 3

\* an event handler makes at most MaxBatch calls before React renders again
MaxBatch == 2

\* EditAction arguments of addAction
HookActions == {"a", "b"}

\* the value of an array read past its bounds
Undefined == "undefined"

----------------------------------------------------------------------------
\* useEditHistory: state updates

\* history[i] with a 0-based index
At(h, i) == IF i + 1 \in DOMAIN h THEN h[i + 1] ELSE Undefined

\* the updater addAction passes to setHistory, run on prev with the
\* currentIndex its closure holds: the new history, and whether it called
\* setCurrentIndex(prev => prev - 1)
AddUpdater(prev, closedIndex, action) ==
    LET pushed == Append(Slice(prev, closedIndex + 1), action)
    IN  IF Len(pushed) > maxHistory
        THEN [history |-> Tail(pushed), shifted |-> TRUE]
        ELSE [history |-> pushed, shifted |-> FALSE]

\* a queued setHistory update: a value, or addAction's updater still to run
ValueUpdate(h) == [updater |-> FALSE, value |-> h]
AddUpdate(action) == [updater |-> TRUE, action |-> action, closedIndex |-> currentIndex]

\* React runs the queued setHistory updates in order on the committed history;
\* an updater that shifts queues its decrement behind the updates already
\* queued on currentIndex
RECURSIVE RunHistory(_, _, _)
RunHistory(q, h, decs) ==
    IF q = <<>> THEN [history |-> h, decs |-> decs]
    ELSE IF ~q[1].updater THEN RunHistory(Tail(q), q[1].value, decs)
    ELSE LET r == AddUpdater(h, q[1].closedIndex, q[1].action)
         IN  RunHistory(Tail(q), r.history, IF r.shifted THEN Append(decs, "dec") ELSE decs)

\* one queued setCurrentIndex update applied to prev
IndexUpdate(u, prev) ==
    CASE u = "dec"    -> prev - 1
      [] u = "inc"    -> prev + 1
      [] u = "incMin" -> IF prev + 1 < maxHistory - 1 THEN prev + 1 ELSE maxHistory - 1
      [] u = "reset"  -> -1

RECURSIVE RunIndex(_, _)
RunIndex(q, i) == IF q = <<>> THEN i ELSE RunIndex(Tail(q), IndexUpdate(q[1], i))

----------------------------------------------------------------------------
\* useEditHistory: operations

\* useState([]) and useState(-1) at the first render
HookInit ==
    /\ hookHistory = <<>>
    /\ currentIndex = -1
    /\ maxHistory \in 1..MaxHistory
    /\ pendingHistory = <<>>
    /\ pendingIndex = <<>>
    /\ hCalls = <<>>
    /\ hUndone = <<>>

\* a call made by the running event handler, through the callbacks of the
\* last render
HookCalled(op, arg, ret) ==
    /\ Len(hCalls) < MaxBatch
    /\ hCalls' = Append(hCalls, [op |-> op, arg |-> arg, ret |-> ret])
    /\ UNCHANGED <<hookHistory, currentIndex, maxHistory, hUndone>>

\* addAction(action) when nothing is queued on the component and React
\* computes the new history eagerly: the updater runs inside setHistory, so a
\* decrement is queued before the setCurrentIndex of addAction itself
addAction_eager(action) ==
    LET r == AddUpdater(hookHistory, currentIndex, action)
    IN  /\ pendingHistory = <<>> /\ pendingIndex = <<>>
        /\ HookCalled("addAction", <<action>>, <<>>)
        /\ pendingHistory' = << ValueUpdate(r.history) >>
        /\ pendingIndex' = (IF r.shifted THEN <<"dec">> ELSE <<>>) \o <<"incMin">>

\* addAction(action) when the updater is queued and runs at the next render
addAction_queued(action) ==
    /\ HookCalled("addAction", <<action>>, <<>>)
    /\ pendingHistory' = Append(pendingHistory, AddUpdate(action))
    /\ pendingIndex' = Append(pendingIndex, "incMin")

useEditHistory_undo ==
    IF currentIndex >= 0
    THEN /\ HookCalled("undo", <<>>, << At(hookHistory, currentIndex) >>)
         /\ pendingIndex' = Append(pendingIndex, "dec")
         /\ UNCHANGED pendingHistory
    ELSE /\ HookCalled("undo", <<>>, <<>>)
         /\ UNCHANGED <<pendingHistory, pendingIndex>>

useEditHistory_redo ==
    IF currentIndex < Len(hookHistory) - 1
    THEN /\ HookCalled("redo", <<>>, << At(hookHistory, currentIndex + 1) >>)
         /\ pendingIndex' = Append(pendingIndex, "inc")
         /\ UNCHANGED pendingHistory
    ELSE /\ HookCalled("redo", <<>>, <<>>)
         /\ UNCHANGED <<pendingHistory, pendingIndex>>

useEditHistory_clearHistory ==
    /\ HookCalled("clearHistory", <<>>, <<>>)
    /\ pendingHistory' = Append(pendingHistory, ValueUpdate(<<>>))
    /\ pendingIndex' = Append(pendingIndex, "reset")

\* the event handler has returned: React processes the queues of both state
\* hooks, history first, and renders; the callbacks are created anew
Render ==
    LET h == RunHistory(pendingHistory, hookHistory, <<>>)
    IN  /\ hCalls # <<>>
        /\ hookHistory' = h.history
        /\ currentIndex' = RunIndex(pendingIndex \o h.decs, currentIndex)
        /\ pendingHistory' = <<>>
        /\ pendingIndex' = <<>>
        /\ hCalls' = <<>>
        /\ hUndone' = IF Len(hCalls) = 1 /\ hCalls[1].op = "undo" /\ currentIndex >= 0
                      THEN << [history |-> hookHistory, index |-> currentIndex,
                               ret |-> hCalls[1].ret] >>
                      ELSE <<>>
        /\ UNCHANGED maxHistory

canUndo_hook == currentIndex >= 0

canRedo_hook == currentIndex < Len(hookHistory) - 1

AddActionEagerCall == \E action \in HookActions : addAction_eager(action)

AddActionQueuedCall == \E action \in HookActions : addAction_queued(action)

\* a step of the hook leaves the cache and the store alone
HookOnly == UNCHANGED <<cacheVars, storeVars, service, imageVars, transVars, appVars, asyncVars, workerVars, ocrCalls>>

HookNext ==
    \/ AddActionEagerCall /\ HookOnly
    \/ AddActionQueuedCall /\ HookOnly
    \/ useEditHistory_undo /\ HookOnly
    \/ useEditHistory_redo /\ HookOnly
    \/ useEditHistory_clearHistory /\ HookOnly
    \/ Render /\ HookOnly

----------------------------------------------------------------------------
\* ImageCacheService.cacheImage and TranslationService.translate: bounds
\* and inputs

\* at most MaxInflight calls of a service wait for their external operation
MaxInflight == 2

\* cache keys `${url}-${quality}' of the images requested
ImageKeys == {"k1", "k2"}

\* the url a cache key was built from
UrlOf(key) == IF key = "k1" THEN "u1" ELSE "u2"

\* what compressImage resolves with: the data URL and its estimateImageSize
Compressed == { [data |-> "v1", size |-> 400], [data |-> "v2", size |-> 700] }

\* cache keys `${from}-${to}-${text}' of the translations requested
TransKeys == {"ja-en-a", "ja-en-b"}

\* this.providers holds at most MaxProviders providers
MaxProviders == 3

\* the names of the providers setupGoogleTranslate and setupDeepL register
ProviderNames == {"Google Translate", "DeepL"}

\* a provider object: id tells two instances of one class apart
Provider(id, name) == [id |-> id, name |-> name]

\* new OfflineTranslationProvider()
OfflineTranslationProvider == Provider(0, "Offline Dictionary")

\* what a provider resolves with
Translations == {"x", "[y]"}

\* cacheTimeout, in clock ticks
cacheTimeout == 2

\* a settled promise
Fulfilled(value) == [state |-> "fulfilled", value |-> value]
Rejected(reason) == [state |-> "rejected", value |-> reason]

----------------------------------------------------------------------------
\* ImageCacheService.cacheImage

ImageInit ==
    /\ iInflight = <<>>
    /\ iOp = "new"
    /\ iKey = ""
    /\ iRet = <<>>
    /\ iFailed = {}

\* cacheImage up to its await: get(cacheKey), and on a miss the compression
\* starts
cacheImage(key, now2) ==
    /\ CacheService_get(key, now2)
    /\ iKey' = key
    /\ IF cRet' # <<>> /\ cRet'[1] # ""
       THEN /\ iOp' = "hit"
            /\ iRet' = << Fulfilled(cRet'[1]) >>
            /\ UNCHANGED iInflight
       ELSE /\ Len(iInflight) < MaxInflight
            /\ iOp' = "miss"
            /\ iRet' = <<>>
            /\ iInflight' = Append(iInflight, key)
    /\ UNCHANGED iFailed

\* compressImage resolves for the n-th waiting call: set(cacheKey, data,
\* undefined, size), and the call returns the data URL
compressImage_resolve(n, c, now2) ==
    /\ n \in 1..Len(iInflight)
    /\ CacheService_set(iInflight[n], c.data, <<>>, <<c.size>>, now2)
    /\ iKey' = iInflight[n]
    /\ iOp' = "stored"
    /\ iRet' = << Fulfilled(c.data) >>
    /\ iInflight' = RemoveAt(iInflight, n)
    /\ UNCHANGED iFailed

\* a catch block that caches the url it falls back to
compressImage_reject_caches(n) ==
    /\ n \in 1..Len(iInflight)
    /\ CacheService_set(iInflight[n], UrlOf(iInflight[n]), <<>>, <<>>, clock)
    /\ iKey' = iInflight[n]
    /\ iOp' = "failed"
    /\ iRet' = << Fulfilled(UrlOf(iInflight[n])) >>
    /\ iInflight' = RemoveAt(iInflight, n)
    /\ iFailed' = iFailed \cup {iInflight[n]}

\* compressImage rejects for the n-th waiting call: the catch block returns
\* the original url
compressImage_reject(n) ==
    /\ n \in 1..Len(iInflight)
    /\ ~hung
    /\ iKey' = iInflight[n]
    /\ iOp' = "failed"
    /\ iRet' = << Fulfilled(UrlOf(iInflight[n])) >>
    /\ iInflight' = RemoveAt(iInflight, n)
    /\ iFailed' = iFailed \cup {iInflight[n]}
    /\ UNCHANGED cacheVars

CacheImageCall == \E key \in ImageKeys, now2 \in LaterReadings : cacheImage(key, now2)

CompressResolve == \E n \in 1..MaxInflight, c \in Compressed, now2 \in LaterReadings :
                      compressImage_resolve(n, c, now2)

CompressReject == \E n \in 1..MaxInflight : compressImage_reject(n)

----------------------------------------------------------------------------
\* TranslationService.translate

\* providers.unshift(provider)
unshift(list, provider) == << provider >> \o list

\* the service with the provider list given, nothing cached, no call waiting
TransIdle(list) ==
    /\ tCache = [k \in TransKeys |-> <<>>]
    /\ tExpiry = [k \in TransKeys |-> <<>>]
    /\ providers = list
    /\ tInflight = <<>>
    /\ tOp = "new"
    /\ tKey = ""
    /\ tRet = <<>>

\* the service after construction: the offline provider alone
TransInit == TransIdle(<< OfflineTranslationProvider >>)

\* the service after construction and setupGoogleTranslate
TransConfigured ==
    TransIdle(unshift(<< OfflineTranslationProvider >>, Provider(1, "Google Translate")))

\* isInCache(key): whether the lookup hits
isInCache(key) ==
    IF ~Truthy(tExpiry[key]) THEN FALSE
    ELSE IF clock > tExpiry[key][1] THEN FALSE
    ELSE tCache[key] # <<>>

\* isInCache(key): the maps it leaves
isInCache_maps(key) ==
    IF (IF ~Truthy(tExpiry[key]) THEN TRUE ELSE clock > tExpiry[key][1])
    THEN [cache |-> [tCache EXCEPT ![key] = <<>>], expiry |-> [tExpiry EXCEPT ![key] = <<>>]]
    ELSE [cache |-> tCache, expiry |-> tExpiry]

\* calculateConfidence, in hundredths
calculateConfidence(providerName, translatedText) ==
    LET baseScore  == CASE providerName = "Google Translate" -> 95
                        [] providerName = "DeepL" -> 92
                        [] providerName = "LibreTranslate" -> 85
                        [] providerName = "Offline Dictionary" -> 99
                        [] OTHER -> 70
        adjustment == (IF translatedText = "[y]" THEN -10 ELSE 0) + 5
        score      == baseScore + adjustment
    IN  IF score > 100 THEN 100 ELSE IF score < 0 THEN 0 ELSE score

\* the step of `for (const provider of this.providers)` made by a call whose
\* array iterator is at index i (0-based) and that has invoked the providers
\* in tried: the iterator reads the array as it is now, and either yields the
\* provider at i, which translate invokes, or is done
IteratorNext(key, i, tried) ==
    IF i < Len(providers)
    THEN << [key |-> key, provider |-> i + 1, tried |-> Append(tried, providers[i + 1])] >>
    ELSE <<>>

\* addProvider(provider): unshift
addProvider(name) ==
    /\ ~hung
    /\ Len(providers) < MaxProviders
    /\ providers' = unshift(providers, Provider(Len(providers), name))
    /\ tOp' = "added"
    /\ tKey' = ""
    /\ tRet' = <<>>
    /\ UNCHANGED <<tCache, tExpiry, tInflight, cacheVars>>

\* translate up to its first await: the cache check, and on a miss the call
\* to the first provider
translate(key) ==
    /\ ~hung
    /\ tKey' = key
    /\ tCache' = isInCache_maps(key).cache
    /\ tExpiry' = isInCache_maps(key).expiry
    /\ IF isInCache(key)
       THEN /\ tOp' = "hit"
            /\ tRet' = << Fulfilled(tCache[key][1]) >>
            /\ UNCHANGED tInflight
       ELSE /\ Len(tInflight) < MaxInflight
            /\ tOp' = "miss"
            /\ tRet' = <<>>
            /\ tInflight' = tInflight \o IteratorNext(key, 0, <<>>)
    /\ UNCHANGED <<providers, cacheVars>>

\* the provider tried by the n-th waiting call resolves: the result is cached
\* and returned
provider_resolve(n, translatedText) ==
    LET call     == tInflight[n]
        provider == call.tried[Len(call.tried)]
        result   == [translatedText |-> translatedText,
                     provider |-> provider.name,
                     confidence |-> calculateConfidence(provider.name, translatedText)]
    IN  /\ n \in 1..Len(tInflight)
        /\ ~hung
        /\ tKey' = call.key
        /\ tOp' = "stored"
        /\ tCache' = [tCache EXCEPT ![call.key] = <<result>>]
        /\ tExpiry' = [tExpiry EXCEPT ![call.key] = <<clock + cacheTimeout>>]
        /\ tRet' = << Fulfilled(result) >>
        /\ tInflight' = RemoveAt(tInflight, n)
        /\ UNCHANGED <<providers, cacheVars>>

\* the provider tried by the n-th waiting call throws: the next provider is
\* called, and after the last one translate throws
provider_reject(n) ==
    LET call == tInflight[n]
        next == IteratorNext(call.key, call.provider, call.tried)
    IN  /\ n \in 1..Len(tInflight)
        /\ ~hung
        /\ tKey' = call.key
        /\ IF next # <<>>
           THEN /\ tOp' = "next"
                /\ tRet' = <<>>
                /\ tInflight' = [tInflight EXCEPT ![n] = next[1]]
           ELSE /\ tOp' = "failed"
                /\ tRet' = << Rejected("All translation providers failed") >>
                /\ tInflight' = RemoveAt(tInflight, n)
        /\ UNCHANGED <<tCache, tExpiry, providers, cacheVars>>

TranslateCall == \E key \in TransKeys : translate(key)

ProviderResolve == \E n \in 1..MaxInflight, translatedText \in Translations :
                      provider_resolve(n, translatedText)

ProviderReject == \E n \in 1..MaxInflight : provider_reject(n)

AddProviderCall == \E name \in ProviderNames : addProvider(name)

\* a step of cacheImage leaves the translation service alone, and conversely
ImageStep == service = "image" /\ UNCHANGED <<service, transVars>>

TransStep == service = "translation" /\ UNCHANGED <<service, imageVars>>

\* a step of either service leaves the store and the hook alone
PopulateOnly == UNCHANGED <<storeVars, hookVars, appVars, asyncVars, workerVars, ocrCalls>>

PopulateNext ==
    \/ CacheImageCall /\ ImageStep /\ PopulateOnly
    \/ CompressResolve /\ ImageStep /\ PopulateOnly
    \/ CompressReject /\ ImageStep /\ PopulateOnly
    \/ Tick /\ UNCHANGED <<service, imageVars, transVars>> /\ PopulateOnly
    \/ Cleanup /\ UNCHANGED imageVars /\ ImageStep /\ PopulateOnly
    \/ TranslateCall /\ TransStep /\ PopulateOnly
    \/ ProviderResolve /\ TransStep /\ PopulateOnly
    \/ ProviderReject /\ TransStep /\ PopulateOnly

\* the translation service with providers registered while calls are waiting
TranslateNext ==
    \/ TranslateCall /\ TransStep /\ PopulateOnly
    \/ ProviderResolve /\ TransStep /\ PopulateOnly
    \/ ProviderReject /\ TransStep /\ PopulateOnly
    \/ AddProviderCall /\ TransStep /\ PopulateOnly

----------------------------------------------------------------------------
\* App.handleFilesSelected: bounds and inputs

\* a call of handleFilesSelected gets 1..MaxFiles files (the form requires one)
MaxFiles == 3

\* detectTextBoxes finds 0..MaxTextBoxes text boxes in an image
MaxTextBoxes == 2

\* generateId() for the page made from file i
FileIds == <<"f1", "f2", "f3", "f4">>

\* the text boxes detected in an image, after translation
TranslatedBoxes(k) == [j \in 1..k |-> [id |-> <<"t1", "t2", "t3">>[j], translatedText |-> "x"]]

----------------------------------------------------------------------------
\* App.handleFilesSelected

\* App as first rendered, the store's flag as constructed
AppInit ==
    /\ isProcessing = FALSE
    /\ uploadProgress = <<>>
    /\ appStage = "idle"
    /\ appFiles = 0
    /\ fileIndex = 0
    /\ appPages = <<>>
    /\ appBoxes = 0
    /\ appPending = 0
    /\ appTimer = FALSE

\* setUploadProgress(prev => prev.map((item, index) => index === i ? {...item, ...} : item))
\* for the 1-based position n; nothing changes when prev has no such item
MarkItem(prev, n, progress, status) ==
    [j \in 1..Len(prev) |->
        IF j = n THEN [prev[j] EXCEPT !.progress = progress, !.status = status] ELSE prev[j]]

\* the updater of the catch block: only status (and message) are replaced
MarkError(prev, n) ==
    [j \in 1..Len(prev) |-> IF j = n THEN [prev[j] EXCEPT !.status = "error"] ELSE prev[j]]

\* the object literal newProject
NewProject(pages) == [id |-> "N", lastModified |-> StoreNow, pages |-> pages]

\* the code after the for loop: setProject(newProject), the toast, the
\* timeout, and setIsProcessing(false) of the finally block
AfterLoop(progress, pages) ==
    /\ setProject(<< NewProject(pages) >>)
    /\ uploadProgress' = progress
    /\ appPages' = pages
    /\ appStage' = "done"
    /\ appTimer' = TRUE
    /\ isProcessing' = FALSE
    /\ UNCHANGED <<appFiles, fileIndex, appBoxes, appPending>>

\* the loop moves to file n: the first updater of the iteration, then
\* await createImageUrl(file)
StartFile(progress, pages, n) ==
    /\ uploadProgress' = MarkItem(progress, n, 25, "uploading")
    /\ appPages' = pages
    /\ fileIndex' = n
    /\ appStage' = "read"
    /\ appBoxes' = 0
    /\ appPending' = 0
    /\ UNCHANGED <<storeVars, isProcessing, appFiles, appTimer>>

\* the end of iteration i, with the progress and pages it leaves: i++ and the
\* loop test
NextFile(progress, pages) ==
    IF fileIndex < appFiles THEN StartFile(progress, pages, fileIndex + 1)
    ELSE AfterLoop(progress, pages)

\* handleFilesSelected(data) with n files, up to the first await
handleFilesSelected(n) ==
    /\ appStage = "idle"
    /\ ~isProcessing
    /\ project = <<>>
    /\ isProcessing' = TRUE
    /\ appFiles' = n
    /\ uploadProgress' = MarkItem([j \in 1..n |-> [file |-> FileIds[j], progress |-> 0,
                                                   status |-> "uploading"]],
                                  1, 25, "uploading")
    /\ appPages' = <<>>
    /\ fileIndex' = 1
    /\ appStage' = "read"
    /\ appBoxes' = 0
    /\ appPending' = 0
    /\ UNCHANGED <<storeVars, appTimer>>

\* createImageUrl(file) resolves
createImageUrl_resolve ==
    /\ appStage = "read"
    /\ uploadProgress' = MarkItem(uploadProgress, fileIndex, 50, "processing")
    /\ appStage' = "detect"
    /\ UNCHANGED <<storeVars, isProcessing, appFiles, fileIndex, appPages, appBoxes,
                   appPending, appTimer>>

\* detectTextBoxes(imageUrl) resolves with k text boxes; Promise.all starts a
\* translateText call for each
detectTextBoxes_resolve(k) ==
    /\ appStage = "detect"
    /\ uploadProgress' = MarkItem(uploadProgress, fileIndex, 75, "translating")
    /\ appStage' = "translate"
    /\ appBoxes' = k
    /\ appPending' = k
    /\ UNCHANGED <<storeVars, isProcessing, appFiles, fileIndex, appPages, appTimer>>

\* one translateText call resolves
translateText_resolve ==
    /\ appStage = "translate"
    /\ appPending > 0
    /\ appPending' = appPending - 1
    /\ UNCHANGED <<storeVars, isProcessing, uploadProgress, appStage, appFiles, fileIndex,
                   appPages, appBoxes, appTimer>>

\* Promise.all resolves: the page is pushed, the item marked complete, and
\* the loop goes on
PageCompleted ==
    /\ appStage = "translate"
    /\ appPending = 0
    /\ NextFile(MarkItem(uploadProgress, fileIndex, 100, "complete"),
                Append(appPages, [id |-> FileIds[fileIndex],
                                  textBoxes |-> TranslatedBoxes(appBoxes)]))

\* a catch block that lets the failure of one file end the whole call: the
\* item is marked, nothing is set as the project, the finally block runs
FileFailed_aborts ==
    /\ \/ appStage \in {"read", "detect"}
       \/ appStage = "translate" /\ appPending > 0
    /\ uploadProgress' = MarkError(uploadProgress, fileIndex)
    /\ appStage' = "done"
    /\ isProcessing' = FALSE
    /\ UNCHANGED <<storeVars, appFiles, fileIndex, appPages, appBoxes, appPending, appTimer>>

\* the awaited call of file i rejects (createImageUrl, detectTextBoxes, or one
\* of the translateText calls): the inner catch marks the item and the loop
\* goes on
FileFailed ==
    /\ \/ appStage \in {"read", "detect"}
       \/ appStage = "translate" /\ appPending > 0
    /\ NextFile(MarkError(uploadProgress, fileIndex), appPages)

\* the timeout set after the loop fires: setUploadProgress([])
HideProgress ==
    /\ appTimer
    /\ appTimer' = FALSE
    /\ uploadProgress' = <<>>
    /\ UNCHANGED <<storeVars, isProcessing, appStage, appFiles, fileIndex, appPages,
                   appBoxes, appPending>>

\* the close button of ProgressIndicator, shown when every item is complete
onClose ==
    /\ uploadProgress # <<>>
    /\ \A j \in 1..Len(uploadProgress) : uploadProgress[j].status = "complete"
    /\ uploadProgress' = <<>>
    /\ UNCHANGED <<storeVars, isProcessing, appStage, appFiles, fileIndex, appPages,
                   appBoxes, appPending, appTimer>>

HandleFilesSelectedCall == \E n \in 1..MaxFiles : handleFilesSelected(n)

DetectResolve == \E k \in 0..MaxTextBoxes : detectTextBoxes_resolve(k)

\* a step of App leaves the cache, the hook and the services alone
AppOnly == UNCHANGED <<cacheVars, hookVars, service, imageVars, transVars, asyncVars, workerVars, ocrCalls>>

\* the steps that settle an await of handleFilesSelected
AppSettle ==
    \/ createImageUrl_resolve /\ AppOnly
    \/ DetectResolve /\ AppOnly
    \/ translateText_resolve /\ AppOnly
    \/ PageCompleted /\ AppOnly
    \/ FileFailed /\ AppOnly

AppNext ==
    \/ HandleFilesSelectedCall /\ AppOnly
    \/ createImageUrl_resolve /\ AppOnly
    \/ DetectResolve /\ AppOnly
    \/ translateText_resolve /\ AppOnly
    \/ PageCompleted /\ AppOnly
    \/ FileFailed /\ AppOnly
    \/ HideProgress /\ AppOnly
    \/ onClose /\ AppOnly

----------------------------------------------------------------------------
\* useAsyncOperation: bounds and inputs

\* at most MaxPending operations passed to execute are pending at a time
MaxPending == 2

\* options.errorMessage: undefined, the empty string, or a message
ErrorMessages == {<<>>, <<"">>, <<"Custom error message">>}

\* the errors an operation rejects with
OperationErrors == {"Operation failed", "test"}

----------------------------------------------------------------------------
\* useAsyncOperation

\* useState(false), useState(null)
AsyncInit ==
    /\ isLoading = FALSE
    /\ error = <<>>
    /\ pending = <<>>
    /\ asyncRet = <<>>
    /\ onErrorArg = <<>>

\* options?.errorMessage || 'An error occurred'
errorMessageOf(options) ==
    IF options.errorMessage = <<>> THEN "An error occurred"
    ELSE IF options.errorMessage[1] = "" THEN "An error occurred"
    ELSE options.errorMessage[1]

\* execute(operation, options) up to the await
execute(options) ==
    /\ Len(pending) < MaxPending
    /\ isLoading' = TRUE
    /\ error' = <<>>
    /\ pending' = Append(pending, options)
    /\ UNCHANGED <<asyncRet, onErrorArg>>

\* the n-th pending operation resolves: the result is returned and the
\* finally block runs
operation_resolve(n) ==
    /\ n \in 1..Len(pending)
    /\ pending' = RemoveAt(pending, n)
    /\ asyncRet' = << Fulfilled("success") >>
    /\ onErrorArg' = <<>>
    /\ isLoading' = FALSE
    /\ UNCHANGED error

\* the n-th pending operation rejects with err: the catch block, then the
\* finally block
operation_reject(n, err) ==
    /\ n \in 1..Len(pending)
    /\ pending' = RemoveAt(pending, n)
    /\ error' = << errorMessageOf(pending[n]) >>
    /\ onErrorArg' = << err >>
    /\ asyncRet' = << Rejected(err) >>
    /\ isLoading' = FALSE

\* reset()
reset ==
    /\ error' = <<>>
    /\ isLoading' = FALSE
    /\ UNCHANGED <<pending, asyncRet, onErrorArg>>

ExecuteCall == \E m \in ErrorMessages : execute([errorMessage |-> m])

OperationResolve == \E n \in 1..MaxPending : operation_resolve(n)

OperationReject == \E n \in 1..MaxPending, err \in OperationErrors : operation_reject(n, err)

\* a step of the hook leaves everything else alone
AsyncOnly == UNCHANGED <<cacheVars, storeVars, hookVars, service, imageVars, transVars, appVars,
                         workerVars, ocrCalls>>

AsyncNext ==
    \/ ExecuteCall /\ AsyncOnly
    \/ OperationResolve /\ AsyncOnly
    \/ OperationReject /\ AsyncOnly
    \/ reset /\ AsyncOnly

----------------------------------------------------------------------------
\* WorkerService

\* executeTask is called at most MaxTasks times
MaxTasks == 2

\* the task ids generateTaskId hands out, one per call, in order
TaskIds == 1..MaxTasks

\* WorkerResponse.type
ResponseTypes == {"SUCCESS", "ERROR", "PROGRESS"}

\* WorkerResponse.error: absent, or the message of what the worker caught
ResponseErrors == {<<>>, <<"">>, <<"Unknown error">>}

\* error || 'Worker task failed'
workerErrorOf(err) ==
    IF err = <<>> THEN "Worker task failed"
    ELSE IF err[1] = "" THEN "Worker task failed" ELSE err[1]

\* the payload of a SUCCESS response
WorkerPayload == "result"

WorkerInit ==
    /\ worker = FALSE
    /\ tasks = {}
    /\ timers = {}
    /\ promises = <<>>

\* task.resolve or task.reject is called: the promise settles if it is still
\* pending, and keeps what it settled with otherwise
Settle(p, outcome) ==
    [promise |-> IF p.promise = <<>> THEN << outcome >> ELSE p.promise,
     calls |-> p.calls + 1]

\* this.tasks.forEach(task => task.reject(new Error(message)))
RejectAll(message) ==
    [id \in 1..Len(promises) |->
        IF id \in tasks THEN Settle(promises[id], Rejected(message)) ELSE promises[id]]

\* executeTask: initialize() when needed, the task registered, the message
\* posted and the timeout set
executeTask ==
    LET taskId == Len(promises) + 1
    IN  /\ taskId \in TaskIds
        /\ worker' = TRUE
        /\ tasks' = tasks \cup {taskId}
        /\ timers' = timers \cup {taskId}
        /\ promises' = Append(promises, [promise |-> <<>>, calls |-> 0])

\* handleWorkerMessage: the worker posts a response for task id
handleWorkerMessage(id, type, err) ==
    /\ worker
    /\ id \in 1..Len(promises)
    /\ IF id \notin tasks
       THEN UNCHANGED <<tasks, promises>>
       ELSE /\ tasks' = tasks \ {id}
            /\ promises' =
                 CASE type = "SUCCESS" ->
                        [promises EXCEPT ![id] = Settle(@, Fulfilled(WorkerPayload))]
                   [] type = "ERROR" ->
                        [promises EXCEPT ![id] = Settle(@, Rejected(workerErrorOf(err)))]
                   [] OTHER -> promises
    /\ UNCHANGED <<worker, timers>>

\* handleWorkerError: the worker raises an error event
handleWorkerError ==
    /\ worker
    /\ promises' = RejectAll("Worker error occurred")
    /\ tasks' = {}
    /\ UNCHANGED <<worker, timers>>

\* the callback of setTimeout for task id runs
Timeout(id) ==
    /\ id \in timers
    /\ timers' = timers \ {id}
    /\ IF id \in tasks
       THEN /\ tasks' = tasks \ {id}
            /\ promises' = [promises EXCEPT ![id] = Settle(@, Rejected("Task timeout"))]
       ELSE UNCHANGED <<tasks, promises>>
    /\ UNCHANGED worker

\* terminate()
terminate ==
    /\ IF worker
       THEN /\ promises' = RejectAll("Worker terminated")
            /\ tasks' = {}
            /\ worker' = FALSE
       ELSE UNCHANGED <<worker, tasks, promises>>
    /\ UNCHANGED timers

WorkerMessage == \E id \in TaskIds, type \in ResponseTypes, err \in ResponseErrors :
                    handleWorkerMessage(id, type, err)

TimeoutFires == \E id \in TaskIds : Timeout(id)

\* a step of the worker service leaves the other components alone
WorkerOnly == UNCHANGED <<cacheVars, storeVars, hookVars, service, imageVars, transVars, appVars,
                          asyncVars, ocrCalls>>

WorkerNext ==
    \/ executeTask /\ WorkerOnly
    \/ WorkerMessage /\ WorkerOnly
    \/ handleWorkerError /\ WorkerOnly
    \/ TimeoutFires /\ WorkerOnly
    \/ terminate /\ WorkerOnly

----------------------------------------------------------------------------
\* OCRCacheService: the CacheService above behind keys derived from the image
\* URL and the language

\* the prefix of the data URL readAsDataURL makes of a PNG and of a JPEG file
PngUrl == <<"d","a","t","a",":","i","m","a","g","e","/","p","n","g",";",
            "b","a","s","e","6","4",",">>

JpegUrl == <<"d","a","t","a",":","i","m","a","g","e","/","j","p","e","g",";",
             "b","a","s","e","6","4",",">>

\* image URLs, as sequences of characters: two PNG files and a JPEG file
ImageUrls == { PngUrl \o <<"A">>, PngUrl \o <<"B">>, JpegUrl \o <<"A">> }

\* the languages OCR is asked for
Languages == {"jpn", "eng"}

\* the OCR results cached
OcrResults == {"v1", "v2"}

\* String.prototype.charCodeAt for the characters of the URLs
charCodeAt(c) ==
    CASE c = "d" -> 100 [] c = "a" -> 97  [] c = "t" -> 116 [] c = ":" -> 58
      [] c = "i" -> 105 [] c = "m" -> 109 [] c = "g" -> 103 [] c = "e" -> 101
      [] c = "/" -> 47  [] c = "p" -> 112 [] c = "n" -> 110 [] c = ";" -> 59
      [] c = "b" -> 98  [] c = "s" -> 115 [] c = "6" -> 54  [] c = "4" -> 52
      [] c = "," -> 44  [] c = "A" -> 65  [] c = "B" -> 66  [] c = "j" -> 106

\* the base64 alphabet
Base64Alphabet ==
    <<"A","B","C","D","E","F","G","H","I","J","K","L","M","N","O","P",
      "Q","R","S","T","U","V","W","X","Y","Z","a","b","c","d","e","f",
      "g","h","i","j","k","l","m","n","o","p","q","r","s","t","u","v",
      "w","x","y","z","0","1","2","3","4","5","6","7","8","9","+","/">>

\* the base64 character of a 6-bit value
Base64Char(v) == Base64Alphabet[v + 1]

\* btoa: three characters become four base64 characters, a rest of one or
\* two is padded with "="
RECURSIVE btoa(_)
btoa(str) ==
    IF str = <<>> THEN <<>>
    ELSE IF Len(str) = 1
    THEN LET n == charCodeAt(str[1]) * 65536
         IN  << Base64Char(n \div 262144), Base64Char((n \div 4096) % 64), "=", "=" >>
    ELSE IF Len(str) = 2
    THEN LET n == charCodeAt(str[1]) * 65536 + charCodeAt(str[2]) * 256
         IN  << Base64Char(n \div 262144), Base64Char((n \div 4096) % 64),
                Base64Char((n \div 64) % 64), "=" >>
    ELSE LET n == charCodeAt(str[1]) * 65536 + charCodeAt(str[2]) * 256 + charCodeAt(str[3])
         IN  << Base64Char(n \div 262144), Base64Char((n \div 4096) % 64),
                Base64Char((n \div 64) % 64), Base64Char(n % 64) >>
             \o btoa(SubSeq(str, 4, Len(str)))

\* .replace(/[^a-zA-Z0-9]/g, '')
RemoveNonAlnum(str) == SelectSeq(str, LAMBDA c : c \notin {"+", "/", "="})

\* the characters as one string
RECURSIVE Join(_)
Join(str) == IF str = <<>> THEN "" ELSE str[1] \o Join(Tail(str))

\* getCacheKey(imageUrl, language)
getCacheKey(imageUrl, language) ==
    "ocr-" \o language \o "-" \o Join(Slice(RemoveNonAlnum(btoa(imageUrl)), 20))

OCRInit == ocrCalls = {}

\* cacheOCRResult(imageUrl, language, result)
cacheOCRResult(imageUrl, language, result, now2) ==
    /\ CacheService_set(getCacheKey(imageUrl, language), result, <<>>, <<>>, now2)
    /\ ocrCalls' = ocrCalls \cup {<<imageUrl, language>>}

\* getCachedOCRResult(imageUrl, language)
getCachedOCRResult(imageUrl, language, now2) ==
    /\ CacheService_get(getCacheKey(imageUrl, language), now2)
    /\ UNCHANGED ocrCalls

CacheOCRResultCall ==
    \E imageUrl \in ImageUrls, language \in Languages, result \in OcrResults,
       now2 \in LaterReadings : cacheOCRResult(imageUrl, language, result, now2)

GetCachedOCRResultCall ==
    \E imageUrl \in ImageUrls, language \in Languages, now2 \in LaterReadings :
        getCachedOCRResult(imageUrl, language, now2)

\* a step of the OCR cache leaves the other components alone
OCROnly == UNCHANGED <<storeVars, hookVars, service, imageVars, transVars, appVars, asyncVars,
                       workerVars>>

OCRNext ==
    \/ CacheOCRResultCall /\ OCROnly
    \/ GetCachedOCRResultCall /\ OCROnly
    \/ Tick /\ UNCHANGED ocrCalls /\ OCROnly

----------------------------------------------------------------------------
\* Specifications

\* the store left as constructed, for the specifications of the other components
StoreIdle ==
    /\ variant = "basic"
    /\ project = <<>>
    /\ currentPageIndex = 0
    /\ selectedTextBox = <<>>
    /\ history = <<>>
    /\ historyIndex = -1
    /\ settings = [maxHistorySteps |-> MaxSteps]
    /\ sRet = <<>>

\* the hook left as first rendered
HookIdle ==
    /\ hookHistory = <<>>
    /\ currentIndex = -1
    /\ maxHistory = MaxHistory
    /\ pendingHistory = <<>>
    /\ pendingIndex = <<>>
    /\ hCalls = <<>>
    /\ hUndone = <<>>

\* the two services left as constructed
PopulateIdle == service = "image" /\ ImageInit /\ TransInit

InitCache == CacheInit(MaxCalls) /\ StoreIdle /\ HookIdle /\ PopulateIdle /\ AppInit /\ AsyncInit /\ WorkerInit /\ OCRInit

InitCacheLong == CacheInit(MaxCallsLong) /\ StoreIdle /\ HookIdle /\ PopulateIdle /\ AppInit /\ AsyncInit /\ WorkerInit /\ OCRInit

InitStore == StoreInit /\ CacheInit(0) /\ HookIdle /\ PopulateIdle /\ AppInit /\ AsyncInit /\ WorkerInit /\ OCRInit

InitHook == HookInit /\ CacheInit(0) /\ StoreIdle /\ PopulateIdle /\ AppInit /\ AsyncInit /\ WorkerInit /\ OCRInit

InitPopulate ==
    /\ service \in {"image", "translation"}
    /\ CacheInit(MaxCallsLong) /\ ImageInit /\ TransConfigured
    /\ StoreIdle /\ HookIdle /\ AppInit /\ AsyncInit /\ WorkerInit /\ OCRInit

InitTranslate ==
    /\ service = "translation"
    /\ CacheInit(0) /\ ImageInit /\ TransInit
    /\ StoreIdle /\ HookIdle /\ AppInit /\ AsyncInit /\ WorkerInit /\ OCRInit

InitApp == AppInit /\ StoreIdle /\ CacheInit(0) /\ HookIdle /\ PopulateIdle /\ AsyncInit /\ WorkerInit /\ OCRInit

InitAsync == AsyncInit /\ StoreIdle /\ CacheInit(0) /\ HookIdle /\ PopulateIdle /\ AppInit /\ WorkerInit /\ OCRInit

InitWorker ==
    /\ WorkerInit /\ OCRInit
    /\ StoreIdle /\ CacheInit(0) /\ HookIdle /\ PopulateIdle /\ AppInit /\ AsyncInit

InitOCR ==
    /\ OCRInit /\ CacheInit(MaxCalls)
    /\ StoreIdle /\ HookIdle /\ PopulateIdle /\ AppInit /\ AsyncInit /\ WorkerInit

\* the cache, for behaviours of at most MaxCalls calls
SpecCache == InitCache /\ [][CacheNext]_vars

\* the cache, for behaviours of at most MaxCallsLong calls
SpecCacheLong == InitCacheLong /\ [][CacheNext]_vars

\* either store, from construction
SpecStore == InitStore /\ [][StoreNext]_vars

\* the hook, from its first render
SpecHook == InitHook /\ [][HookNext]_vars

\* the image cache with its cacheImage calls, or the translation service
\* with its translate calls
SpecPopulate == InitPopulate /\ [][PopulateNext]_vars

\* the translation service from construction, with its translate and
\* addProvider calls
SpecTranslate == InitTranslate /\ [][TranslateNext]_vars

\* App with one handleFilesSelected call
SpecApp == InitApp /\ [][AppNext]_vars

\* useAsyncOperation, from its first render
SpecAsync == InitAsync /\ [][AsyncNext]_vars

\* the OCR cache, for behaviours of at most MaxCalls calls
SpecOCR == InitOCR /\ [][OCRNext]_vars

\* the worker service, from construction
SpecWorker == InitWorker /\ [][WorkerNext]_vars

\* the same, every timeout that was set firing sooner or later
SpecWorkerFair == SpecWorker /\ WF_vars(TimeoutFires /\ WorkerOnly)

\* the same, every await of the call settling sooner or later
SpecAppFair == SpecApp /\ WF_vars(AppSettle)

----------------------------------------------------------------------------
\* Properties of CacheService

\* a step that is a completed or hung CacheService call (not a Tick)
CallStep == callsLeft' = callsLeft - 1

\* C1: in every reachable state (after any sequence of set, get, has,
\* delete, clear, sweep and destroy calls) currentSize equals the sum of the
\* size fields of the entries in the map.
C1_SizeAccounting == currentSize = SumSizes(cache)

\* C1 witness: a get or has call has just deleted an expired entry and left
\* other entries behind.
C1_Witness ==
    /\ cOp \in {"get", "has"}
    /\ cFound # <<>>
    /\ cNow > cFound[1].expires
    /\ Len(cache) >= 1
    /\ currentSize > 0

\* C2: after a set call completes currentSize <= maxSize unless the entry
\* just inserted is alone larger than maxSize and is then the only entry;
\* and no call other than set ever increases currentSize.
C2_StateBound ==
    /\ currentSize <= maxSize \/ (Len(cache) = 1 /\ cache[1].size > maxSize)
    /\ (cOp = "set" /\ ~hung /\ currentSize > maxSize) => cache[1].key = cKey

C2_SizeBound ==
    /\ []C2_StateBound
    /\ [][(CallStep /\ cOp' # "set") => currentSize' <= currentSize]_vars

\* C2 witness: a set call has evicted an entry and the cache holds several
\* entries within maxSize.
C2_Witness ==
    /\ cOp = "set"
    /\ ~hung
    /\ cEvicted # <<>>
    /\ Len(cache) >= 2
    /\ currentSize <= maxSize

\* C3: a get or has call made at a time strictly after the entry's expiry
\* returns null / false and removes exactly that entry, size() dropping by
\* one and sizeInBytes() by its size; and get returns data only for an entry
\* that is present and whose expiry is not earlier than the time of the call.
C3_Expiry ==
    [][(CallStep /\ cOp' \in {"get", "has"}) =>
        LET i == IndexOf(cache, cKey') IN
        /\ (i # 0 /\ clock > cache[i].expires) =>
              /\ cRet' = (IF cOp' = "get" THEN <<>> ELSE <<FALSE>>)
              /\ IndexOf(cache', cKey') = 0
              /\ Len(cache') = Len(cache) - 1
              /\ currentSize' = currentSize - cache[i].size
        /\ (cOp' = "get" /\ cRet' # <<>>) =>
              /\ i # 0
              /\ cRet' = <<cache[i].data>>
              /\ ~(cache[i].expires < clock)
    ]_vars

\* C3 witness: a get call made strictly after the expiry of its entry has
\* returned null and the key is gone.
C3_Witness ==
    /\ cOp = "get"
    /\ cFound # <<>>
    /\ cNow > cFound[1].expires
    /\ cRet = <<>>
    /\ IndexOf(cache, cKey) = 0

\* the entries of c other than the one with key k, in order
Without(c, k) == SelectSeq(c, LAMBDA e : e.key # k)

\* the entries of c whose keys are not among the first n of ks, in order
LiveAfter(c, ks, n) == SelectSeq(c, LAMBDA e : \A m \in 1..n : ks[m] # e.key)

\* C4: every entry a set call evicts has, at that moment, the minimal touch
\* timestamp among the live entries, ties going to the earliest in insertion
\* order; each eviction happens only while the new entry does not fit, and
\* when set completes the survivors are kept in order in front of the new
\* entry, which fits unless nothing else is left.
C4_LruEviction ==
    [][(CallStep /\ cOp' = "set") =>
        LET base == Without(cache, cKey')
            ks   == cEvicted'
            new  == cache'[Len(cache')]
            size == IF hung' THEN 0 ELSE new.size
        IN
        /\ \A n \in 1..Len(ks) :
              LET live == LiveAfter(base, ks, n - 1)
                  i    == IndexOf(live, ks[n])
              IN
              /\ i # 0
              /\ \A j \in 1..Len(live) : live[i].timestamp <= live[j].timestamp
              /\ \A j \in 1..(i - 1) : live[j].timestamp > live[i].timestamp
              /\ ~hung' => SumSizes(live) + size > maxSize
        /\ ~hung' =>
              /\ cache' = Append(LiveAfter(base, ks, Len(ks)), new)
              /\ new.key = cKey'
              /\ (currentSize' <= maxSize \/ Len(cache') = 1)
    ]_vars

\* C4 witness: the end-to-end scenario: three calls set k1, k2, k3 with size
\* 400 each; k1 was evicted and k2, k3 remain.
C4_Witness ==
    /\ cOp = "set"
    /\ callsLeft = MaxCalls - 3
    /\ cEvicted = <<"k1">>
    /\ keys(cache) = <<"k2", "k3">>
    /\ \A i \in 1..2 : cache[i].size = 400
    /\ currentSize = 800

\* the cache as it was before the get call just made touched its entry
BeforeTouch == [i \in 1..Len(cache) |->
                  IF cache[i].key = cKey THEN cFound[1] ELSE cache[i]]

\* C5: with at least two unexpired entries of which A has the oldest touch
\* timestamp, get(A) followed by a set of a new key that forces exactly one
\* eviction evicts an entry other than A.
C5_TouchProtects ==
    [][(/\ cOp = "get"
        /\ cRet # <<>>
        /\ Len(cache) >= 2
        /\ \A i \in 1..Len(cache) : ~(cache[i].expires < clock)
        /\ BeforeTouch[OldestIndex(BeforeTouch)].key = cKey
        /\ \A i \in 1..Len(cache) :
              cache[i].key # cKey => BeforeTouch[i].timestamp > cFound[1].timestamp
        /\ CallStep
        /\ cOp' = "set"
        /\ IndexOf(cache, cKey') = 0
        /\ Len(cEvicted') = 1)
       => cEvicted'[1] # cKey
    ]_vars

----------------------------------------------------------------------------
\* Properties of the stores' history

\* C6: in every reachable state of either store the history cursor is in range,
\* -1 <= historyIndex < history.length, whatever sequence of addToHistory, undo,
\* redo, clearHistory, setProject, updateSettings, updateTextBox, deleteTextBox
\* and addTextBox led there.
C6_IndexInRange == -1 <= historyIndex /\ historyIndex < Len(history)

\* the optimized store with a full log, every action of it undone: the last
\* call was the undo that returned the oldest action
C6_Witness ==
    /\ variant = "optimized"
    /\ Len(history) = MaxSteps
    /\ settings.maxHistorySteps = MaxSteps
    /\ historyIndex = -1
    /\ sRet = << history[1] >>

\* in both stores, addToHistory below the maximum discards the actions after
\* the cursor, appends the new one and leaves the cursor on it
Store_Truncation ==
    [][ (addToHistory(MoveAction) /\ historyIndex + 1 < settings.maxHistorySteps)
        => /\ history' = Append(SubSeq(history, 1, historyIndex + 1), MoveAction)
           /\ historyIndex' = historyIndex + 1
           /\ historyIndex' = Len(history') - 1
      ]_vars

\* no store call but updateSettings takes the log beyond maxHistorySteps, and
\* an addToHistory at the tip of a full log drops the oldest action and leaves
\* the cursor on the new one
Store_Bound ==
    /\ [][ Len(history) <= settings.maxHistorySteps /\ settings' = settings
           => Len(history') <= settings.maxHistorySteps ]_vars
    /\ [][ (addToHistory(MoveAction) /\ Len(history) = settings.maxHistorySteps
                                     /\ historyIndex = Len(history) - 1)
           => /\ history' = Append(Tail(history), MoveAction)
              /\ historyIndex' = settings.maxHistorySteps - 1
         ]_vars

\* in the store, from any reachable state with historyIndex >= 0, undo() and
\* then redo() return the same action and restore the state; neither changes
\* the log
Store_RoundTrip ==
    /\ [](historyIndex >= 0 =>
            LET u == IF variant = "basic" THEN basic_undo(StoreState)
                     ELSE optimized_undo(StoreState)
                r == IF variant = "basic" THEN basic_redo(u.st) ELSE optimized_redo(u.st)
            IN  /\ u.ret = << history[historyIndex + 1] >>
                /\ r.ret = u.ret
                /\ r.st = StoreState)
    /\ [][ (undo \/ redo) => history' = history ]_vars

\* in the store, undo and redo at the boundaries return null and change
\* nothing, and return an action exactly when canUndo / canRedo hold
Store_Boundaries ==
    [][ /\ (undo /\ historyIndex < 0) => (sRet' = <<>> /\ UNCHANGED <<history, historyIndex>>)
        /\ (redo /\ historyIndex >= Len(history) - 1)
               => (sRet' = <<>> /\ UNCHANGED <<history, historyIndex>>)
        /\ undo => ((sRet' # <<>> /\ sRet'[1] # UndefinedAction) <=> canUndo(StoreState))
        /\ redo => ((sRet' # <<>> /\ sRet'[1] # UndefinedAction) <=> canRedo(StoreState))
      ]_vars

----------------------------------------------------------------------------
\* Properties of useEditHistory

\* the entries of log at the positions 0 .. n-1 that exist
Prefix(log, n) == SubSeq(log, 1, IF n < 0 THEN 0 ELSE IF n > Len(log) THEN Len(log) ELSE n)

\* the event React is about to render made exactly one call, to op
LoneCall(op) == Len(hCalls) = 1 /\ hCalls[1].op = op

\* the step is the first call of an event handler, and a call to op
FirstCall(op) == hCalls = <<>> /\ Len(hCalls') = 1 /\ hCalls'[1].op = op

\* the value is an EditAction, not null and not undefined
IsAction(ret) == ret # <<>> /\ ret[1] \in HookActions

\* C7: addAction(a) made in a committed state (log, i) with i + 1 < maxHistory
\* commits log' = log[0..i] followed by a, and currentIndex' = i + 1 =
\* length(log') - 1.
C7_Truncation ==
    [][ (Render /\ LoneCall("addAction") /\ currentIndex + 1 < maxHistory)
        => /\ hookHistory' = Prefix(hookHistory, currentIndex + 1) \o hCalls[1].arg
           /\ currentIndex' = currentIndex + 1
           /\ currentIndex' = Len(hookHistory') - 1
      ]_vars

\* C8: the log never holds more than maxHistory actions, and an addAction(a)
\* made at the tip of a full log commits the log without its oldest action,
\* followed by a, with the cursor on a at maxHistory - 1.
C8_Bound ==
    /\ [](Len(hookHistory) <= maxHistory)
    /\ [][ (Render /\ LoneCall("addAction") /\ Len(hookHistory) = maxHistory
                   /\ currentIndex = maxHistory - 1)
           => /\ hookHistory' = Tail(hookHistory) \o hCalls[1].arg
              /\ currentIndex' = maxHistory - 1
         ]_vars

\* C9: in a committed state with currentIndex >= 0, undo() and then redo()
\* return the same action and commit the log and the cursor the undo started
\* from; undo and redo never change the log.
C9_RoundTrip ==
    /\ [][ (Render /\ LoneCall("redo") /\ hUndone # <<>>)
           => /\ IsAction(hCalls[1].ret)
              /\ hCalls[1].ret = hUndone[1].ret
              /\ hookHistory' = hUndone[1].history
              /\ currentIndex' = hUndone[1].index
         ]_vars
    /\ [][ (Render /\ \A n \in 1..Len(hCalls) : hCalls[n].op \in {"undo", "redo"})
           => hookHistory' = hookHistory ]_vars

\* C10: undo() at currentIndex < 0 and redo() at currentIndex >= length - 1
\* return null and queue no update; undo returns an action exactly when
\* canUndo is true, redo exactly when canRedo is true.
C10_Boundaries ==
    [][ /\ (FirstCall("undo") /\ currentIndex < 0)
               => (hCalls'[1].ret = <<>> /\ UNCHANGED <<pendingHistory, pendingIndex>>)
        /\ (FirstCall("redo") /\ currentIndex >= Len(hookHistory) - 1)
               => (hCalls'[1].ret = <<>> /\ UNCHANGED <<pendingHistory, pendingIndex>>)
        /\ FirstCall("undo") => (IsAction(hCalls'[1].ret) <=> canUndo_hook)
        /\ FirstCall("redo") => (IsAction(hCalls'[1].ret) <=> canRedo_hook)
      ]_vars

----------------------------------------------------------------------------
\* Properties of cacheImage and translate

\* C11: a failed population on a miss stores nothing: the miss leaves no entry
\* for the key, and the failure (compressImage rejects; the last provider
\* throws) leaves the cache contents and size as they were. A population that
\* succeeds stores the computed value under the key and returns it.
C11_FailureStoresNothing ==
    [][ /\ (CacheImageCall /\ iOp' = "miss") => IndexOf(cache', iKey') = 0
        /\ CompressReject => UNCHANGED <<cache, currentSize>>
        /\ CompressResolve
               => /\ ~hung'
                  /\ IndexOf(cache', iKey') # 0
                  /\ cache'[IndexOf(cache', iKey')].data = iRet'[1].value
                  /\ iRet'[1].state = "fulfilled"
        /\ (TranslateCall /\ tOp' = "miss") => tCache'[tKey'] = <<>>
        /\ ProviderReject => UNCHANGED <<tCache, tExpiry>>
        /\ ProviderResolve
               => /\ tCache'[tKey'] = << tRet'[1].value >>
                  /\ tRet'[1].state = "fulfilled"
      ]_vars

\* a compression for the key failed earlier, leaving nothing, and a later
\* call has now stored and returned its value
C11_Witness ==
    /\ iOp = "stored"
    /\ iKey \in iFailed
    /\ iInflight = <<>>
    /\ keys(cache) = << iKey >>
    /\ cache[1].data = iRet[1].value

\* C12: a population that fails on a miss reaches the caller as an error: when
\* compressImage rejects, the promise returned by cacheImage rejects, and when
\* the last provider throws, the promise returned by translate rejects.
C12_FailurePropagates ==
    [][ /\ CompressReject => iRet'[1].state = "rejected"
        /\ (ProviderReject /\ tOp' = "failed") => tRet'[1].state = "rejected"
      ]_vars

----------------------------------------------------------------------------
\* Properties of the store's edits

\* the EditAction expected in the log
Recorded(type, pageId, textBoxId, before, after) ==
    [type |-> type, pageId |-> pageId, textBoxId |-> textBoxId,
     before |-> before, after |-> after]

\* the page with that id exists in the loaded project
PageExists(pageId) ==
    IF project = <<>> THEN FALSE ELSE FindId(project[1].pages, pageId) # 0

\* the state the store in use is left in by each of the three edits
AfterUpdate(pageId, textBoxId, updates) ==
    IF variant = "basic" THEN basic_updateTextBox(StoreState, pageId, textBoxId, updates)
    ELSE optimized_updateTextBox(StoreState, pageId, textBoxId, updates)

AfterDelete(pageId, textBoxId) ==
    IF variant = "basic" THEN basic_deleteTextBox(StoreState, pageId, textBoxId)
    ELSE optimized_deleteTextBox(StoreState, pageId, textBoxId)

AfterAdd(pageId, textBox) ==
    IF variant = "basic" THEN basic_addTextBox(StoreState, pageId, textBox)
    ELSE optimized_addTextBox(StoreState, pageId, textBox)

\* the text boxes of the page with that id in the project proj
BoxesOf(proj, pageId) == proj[1].pages[FindId(proj[1].pages, pageId)].textBoxes

\* the state after has exactly the action a appended: it is the last entry,
\* the index points at it, and what precedes it is the retained prefix of the
\* present log (less its oldest entry when the bound made the log drop one)
AppendedOne(after, a) ==
    LET kept  == Slice(history, historyIndex + 1)
        front == SubSeq(after.history, 1, Len(after.history) - 1)
    IN  /\ Len(after.history) >= 1
        /\ after.history[Len(after.history)] = a
        /\ after.historyIndex = Len(after.history) - 1
        /\ \/ front = kept
           \/ kept # <<>> /\ front = Tail(kept)

\* C13: an updateTextBox, deleteTextBox or addTextBox on an existing page or
\* text box changes the project accordingly and appends exactly one EditAction
\* at the tip of the history (historyIndex = history.length - 1); the action
\* names the page and the box, its before is the box's value prior to the call
\* and its after the value afterwards, {} standing for the missing side. Stated
\* of the call made in any reachable state of either store.
C13_EditRecorded ==
    /\ \A pageId \in PageIds, textBoxId \in TextBoxIds, updates \in Updates :
          getTextBoxById(project, pageId, textBoxId) # <<>>
          => LET after == AfterUpdate(pageId, textBoxId, updates)
                 old   == getTextBoxById(project, pageId, textBoxId)[1]
             IN  /\ getTextBoxById(after.project, pageId, textBoxId)
                       = << Spread(old, updates) >>
                 /\ AppendedOne(after,
                                Recorded("edit", pageId, textBoxId, old,
                                         getTextBoxById(after.project, pageId, textBoxId)[1]))
    /\ \A pageId \in PageIds, textBoxId \in TextBoxIds :
          getTextBoxById(project, pageId, textBoxId) # <<>>
          => LET after == AfterDelete(pageId, textBoxId)
                 old   == getTextBoxById(project, pageId, textBoxId)[1]
             IN  /\ getTextBoxById(after.project, pageId, textBoxId) = <<>>
                 /\ AppendedOne(after, Recorded("delete", pageId, textBoxId, old, EmptyObject))
    /\ \A pageId \in PageIds, textBox \in NewTextBoxes :
          PageExists(pageId)
          => LET after == AfterAdd(pageId, textBox)
                 boxes == BoxesOf(after.project, pageId)
             IN  /\ Len(boxes) = Len(BoxesOf(project, pageId)) + 1
                 /\ boxes[Len(boxes)] = textBox
                 /\ AppendedOne(after, Recorded("add", pageId, textBox.id, EmptyObject,
                                                boxes[Len(boxes)]))

\* the edits of the model are these calls
Store_EditsAreCalls ==
    [][ /\ \A pageId \in PageIds, textBoxId \in TextBoxIds, updates \in Updates :
              updateTextBox(pageId, textBoxId, updates)
                  => StoreState' = AfterUpdate(pageId, textBoxId, updates)
        /\ \A pageId \in PageIds, textBoxId \in TextBoxIds :
              deleteTextBox(pageId, textBoxId) => StoreState' = AfterDelete(pageId, textBoxId)
        /\ \A pageId \in PageIds, textBox \in NewTextBoxes :
              addTextBox(pageId, textBox) => StoreState' = AfterAdd(pageId, textBox)
      ]_vars

\* a box was added to an empty page and then edited: the log holds the add
\* and, at the tip, the edit from the added value to the box's present value
C13_Witness ==
    /\ project # <<>>
    /\ project[1].id = "B"
    /\ Len(history) = 2
    /\ historyIndex = 1
    /\ history[1] = Recorded("add", "p1", "t1", EmptyObject, TextBoxA)
    /\ history[2] = Recorded("edit", "p1", "t1", TextBoxA,
                           getTextBoxById(project, "p1", "t1")[1])
    /\ history[2].after.translatedText = "y"

----------------------------------------------------------------------------
\* Further properties of the cache

\* C14: a set whose entry is larger than maxSize is not rejected and does not
\* fail: it evicts every other entry and inserts the entry, so that afterwards
\* the cache holds exactly that entry, has(key) is true and currentSize is
\* the entry's size.
C14_OversizedInserted ==
    [][ \A key \in Keys, a \in SetArgs, now2 \in LaterReadings :
           (CacheService_set(key, a[1], a[2], a[3], now2)
               /\ Truthy(a[3]) /\ a[3][1] > maxSize)
           => /\ ~hung'
              /\ keys(cache') = << key >>
              /\ currentSize' = a[3][1]
              /\ ~Expired(cache'[1], clock')
      ]_vars

\* the same property for the calls that return
Cache_OversizedWhenReturning ==
    [][ \A key \in Keys, a \in SetArgs, now2 \in LaterReadings :
           (CacheService_set(key, a[1], a[2], a[3], now2)
               /\ Truthy(a[3]) /\ a[3][1] > maxSize /\ ~hung')
           => /\ keys(cache') = << key >>
              /\ currentSize' = a[3][1]
              /\ ~Expired(cache'[1], clock')
      ]_vars

----------------------------------------------------------------------------
\* Further properties of the store

\* C15: the history is scoped to one project: immediately after setProject(p)
\* the history is empty and historyIndex is -1, in both stores.
C15_HistoryPerProject ==
    [][ \A p \in Projects : setProject(p) => (history' = <<>> /\ historyIndex' = -1) ]_vars

----------------------------------------------------------------------------
\* Properties of App.handleFilesSelected

\* the ids of the pages, in order
PageIdsOf(pages) == [j \in 1..Len(pages) |-> pages[j].id]

\* the page ids of the files whose progress item is complete, in upload order
CompletedFiles(progress) ==
    LET done == SelectSeq(progress, LAMBDA item : item.status = "complete")
    IN  [j \in 1..Len(done) |-> done[j].file]

C16_Step ==
    /\ FileFailed
          => /\ uploadProgress'[fileIndex].status = "error"
             /\ \A j \in 1..Len(uploadProgress) :
                   j # fileIndex => uploadProgress'[j].status = uploadProgress[j].status
             /\ Len(uploadProgress') = Len(uploadProgress)
             /\ fileIndex < appFiles
                   => (appStage' = "read" /\ fileIndex' = fileIndex + 1 /\ isProcessing')
    /\ (appStage # "done" /\ appStage' = "done")
          => /\ ~isProcessing'
             /\ Len(uploadProgress') = appFiles
             /\ \A j \in 1..appFiles : uploadProgress'[j].status \in {"complete", "error"}
             /\ project' # <<>>
             /\ PageIdsOf(project'[1].pages) = CompletedFiles(uploadProgress')

\* C16: in handleFilesSelected a failure while reading, detecting or
\* translating file i marks only progress item i as 'error' and does not stop
\* the loop: the other files are still processed, the project set at the end
\* holds exactly the pages of the files that succeeded, in upload order, and
\* isProcessing is eventually false again whatever fails.
C16_FailureIsolated ==
    /\ [][C16_Step]_vars
    /\ (isProcessing ~> ~isProcessing)

\* three files were selected, the second failed: the project holds the pages
\* of the first and the third, and only the second item is marked
C16_Witness ==
    /\ appStage = "done"
    /\ ~isProcessing
    /\ appFiles = 3
    /\ Len(uploadProgress) = 3
    /\ uploadProgress[1].status = "complete"
    /\ uploadProgress[2].status = "error"
    /\ uploadProgress[3].status = "complete"
    /\ project # <<>>
    /\ PageIdsOf(project[1].pages) = <<"f1", "f3">>

----------------------------------------------------------------------------
\* Properties of useAsyncOperation

\* execute, a rejection and reset
Async_CallSteps ==
    /\ ExecuteCall => (isLoading' /\ error' = <<>>)
    /\ \A n \in 1..MaxPending, err \in OperationErrors :
          operation_reject(n, err)
          => /\ asyncRet' = << Rejected(err) >>
             /\ onErrorArg' = << err >>
             /\ error' = << IF pending[n].errorMessage \in {<<>>, <<"">>}
                            THEN "An error occurred" ELSE pending[n].errorMessage[1] >>
    /\ reset => (error' = <<>> /\ ~isLoading')

\* C17: isLoading is true while the operation passed to execute is pending
\* and false once it has settled; a rejection rethrows the original error,
\* hands it to onError and sets the error state to options.errorMessage or
\* 'An error occurred'; a new execute resets the error state to null; reset()
\* sets error to null and isLoading to false.
C17_AsyncOperation ==
    [][ /\ Async_CallSteps
        /\ (OperationResolve \/ OperationReject)
              => /\ pending' = <<>> => ~isLoading'
                 /\ (isLoading /\ pending' # <<>>) => isLoading'
      ]_vars

\* the same while at most one operation is pending
Async_OneAtATime ==
    [][ /\ Async_CallSteps
        /\ ((OperationResolve \/ OperationReject) /\ Len(pending) = 1) => ~isLoading'
        /\ (ExecuteCall /\ pending = <<>>) => (isLoading' /\ pending' # <<>>)
      ]_vars

----------------------------------------------------------------------------
\* Further properties of useEditHistory

\* the calls the event handler made were two calls of op
TwoCalls(op) == Len(hCalls) = 2 /\ hCalls[1].op = op /\ hCalls[2].op = op

\* C18: two operations issued back-to-back in one event handler have the
\* effect of the same operations issued in separate events: addAction(a);
\* addAction(b) leaves a log ending in a, b with currentIndex on b and within
\* range, and undo(); undo() from an index i >= 1 returns log[i] and then
\* log[i-1].
C18_BackToBack ==
    [][ Render =>
        /\ (TwoCalls("addAction") /\ maxHistory >= 2)
              => /\ Len(hookHistory') >= 2
                 /\ hookHistory'[Len(hookHistory') - 1] = hCalls[1].arg[1]
                 /\ hookHistory'[Len(hookHistory')] = hCalls[2].arg[1]
                 /\ currentIndex' = Len(hookHistory') - 1
        /\ (TwoCalls("undo") /\ currentIndex >= 1 /\ currentIndex <= Len(hookHistory) - 1)
              => /\ hCalls[1].ret = << hookHistory[currentIndex + 1] >>
                 /\ hCalls[2].ret = << hookHistory[currentIndex] >>
                 /\ currentIndex' = currentIndex - 2
      ]_vars

----------------------------------------------------------------------------
\* Expiry and overlapping populations

\* C19: for every ttl passed to set, 0 included, the stored expiry is the time
\* of the call plus ttl, and the default TTL is used only when no ttl is
\* given; an entry set with ttl = 0 is therefore absent to every get or has
\* made at a strictly later time.
C19_TtlZero ==
    [][ \A key \in Keys, a \in SetArgs, now2 \in LaterReadings :
           (CacheService_set(key, a[1], a[2], a[3], now2) /\ ~hung')
           => cache'[Len(cache')].expires
                 = clock + (IF a[2] = <<>> THEN defaultTTL ELSE a[2][1])
      ]_vars


\* C20: when two cacheImage calls for one key both miss before either has
\* stored, both compressions run, and once both have completed the cache
\* holds exactly one entry for the key, with the value of the later writer,
\* and currentSize counts that entry once.
C20_LaterWriterWins ==
    [][ \A n \in 1..MaxInflight, c \in Compressed, now2 \in LaterReadings :
           (compressImage_resolve(n, c, now2) /\ IndexOf(cache, iInflight[n]) # 0)
           => /\ ~hung'
              /\ Len(SelectSeq(cache', LAMBDA e : e.key = iInflight[n])) = 1
              /\ cache'[IndexOf(cache', iInflight[n])].data = c.data
              /\ cache'[IndexOf(cache', iInflight[n])].size = c.size
              /\ currentSize'
                    = currentSize - cache[IndexOf(cache, iInflight[n])].size + c.size
              /\ currentSize' = SumSizes(cache')
      ]_vars

\* two calls for k1 missed, the first stored v1 (400 bytes), the second then
\* stored v2 (700 bytes): one entry, the second value, 700 bytes counted
C20_Witness ==
    /\ service = "image"
    /\ iOp = "stored"
    /\ iKey = "k1"
    /\ iInflight = <<>>
    /\ callsLeft = MaxCallsLong - 4
    /\ cFound # <<>>
    /\ cFound[1].data = "v1"
    /\ keys(cache) = <<"k1">>
    /\ cache[1].data = "v2"
    /\ currentSize = 700

----------------------------------------------------------------------------
\* The sweep and termination of set

\* C21: a sweep run at time now removes exactly the entries with
\* now > expires and nothing else: the survivors keep their data, timestamp,
\* size and expiry and their order, no entry is created, currentSize drops by
\* the sum of the removed sizes, and the size accounting still holds, whatever
\* calls came before.
\* Stated of the sweep run in any reachable state, at the clock's reading.
C21_SweepExact ==
    LET swept == CacheService_cleanup([cache |-> cache, size |-> currentSize], clock)
    IN  /\ swept.cache = SelectSeq(cache, LAMBDA e : ~(clock > e.expires))
        /\ swept.size = currentSize
                           - SumSizes(SelectSeq(cache, LAMBDA e : clock > e.expires))
        /\ swept.size = SumSizes(swept.cache)

\* the sweep of the model is this call
Cache_SweepIsCall ==
    [][ (CallStep /\ cOp' = "cleanup")
        => LET swept == CacheService_cleanup([cache |-> cache, size |-> currentSize], clock)
           IN  cache' = swept.cache /\ currentSize' = swept.size /\ cNow' = clock
      ]_vars

\* a sweep has removed an expired entry and left another one in place
C21_Witness ==
    /\ cOp = "cleanup"
    /\ cEvicted # <<>>
    /\ Len(cache) >= 1
    /\ \A i \in 1..Len(cache) : ~(cNow > cache[i].expires)
    /\ currentSize > 0


\* C25: every set call terminates: each iteration of the eviction loop
\* removes an entry, whatever keys are in the cache, the empty string included.
C25_SetTerminates == ~hung


----------------------------------------------------------------------------
\* Undo and redo of the stores

\* the state each store is left in, and the value returned, by undo and redo
AfterUndo == IF variant = "basic" THEN basic_undo(StoreState) ELSE optimized_undo(StoreState)

AfterRedo == IF variant = "basic" THEN basic_redo(StoreState) ELSE optimized_redo(StoreState)

\* C22: in both stores undo() and redo() change nothing but historyIndex: the
\* project, the selected text box, the settings and the history array are the
\* same afterwards, and the action at the cursor is only returned (undo returns
\* history[historyIndex] and steps back, redo steps forward and returns the
\* action it lands on; at either end they return null and change nothing).
\* Stated of the call made in any reachable state of either store.
C22_UndoRedoFrame ==
    /\ [AfterUndo.st EXCEPT !.historyIndex = historyIndex] = StoreState
    /\ IF historyIndex >= 0
       THEN /\ AfterUndo.st.historyIndex = historyIndex - 1
            /\ AfterUndo.ret = << history[historyIndex + 1] >>
       ELSE /\ AfterUndo.st.historyIndex = historyIndex
            /\ AfterUndo.ret = <<>>
    /\ [AfterRedo.st EXCEPT !.historyIndex = historyIndex] = StoreState
    /\ IF historyIndex < Len(history) - 1
       THEN /\ AfterRedo.st.historyIndex = historyIndex + 1
            /\ AfterRedo.ret = << history[historyIndex + 2] >>
       ELSE /\ AfterRedo.st.historyIndex = historyIndex
            /\ AfterRedo.ret = <<>>

\* the undo and redo of the model are these calls
Store_UndoRedoAreCalls ==
    [][ /\ undo => (StoreState' = AfterUndo.st /\ sRet' = AfterUndo.ret)
        /\ redo => (StoreState' = AfterRedo.st /\ sRet' = AfterRedo.ret)
      ]_vars

\* the basic store after an undo of the newest of two actions, with a project
\* loaded and a box selected: the log still holds the action just returned
C22_Witness ==
    /\ variant = "basic"
    /\ project # <<>>
    /\ selectedTextBox # <<>>
    /\ Len(history) = 2
    /\ historyIndex = 0
    /\ sRet = << history[2] >>


----------------------------------------------------------------------------
\* The provider chain of the translation service

\* the providers the n-th waiting call had invoked before this step
TriedBefore(n) == IF n \in 1..Len(tInflight) THEN tInflight[n].tried ELSE <<>>

\* the members of a sequence
Members(s) == {s[i] : i \in 1..Len(s)}

\* the position of provider p in the list
PositionOf(list, p) == CHOOSE i \in 1..Len(list) : list[i] = p

\* the offline provider the constructor pushed is the last of the list
Translate_OfflineLast == providers[Len(providers)] = OfflineTranslationProvider

\* a call whose loop ends without a success rejects with this error, and it
\* has invoked the last provider of the list
Translate_AllFailedRejects ==
    [][ tOp' = "failed"
        => /\ tRet' = << Rejected("All translation providers failed") >>
           /\ \E n \in 1..Len(tInflight) :
                 /\ tInflight' = RemoveAt(tInflight, n)
                 /\ tInflight[n].tried[Len(tInflight[n].tried)] = providers[Len(providers)]
      ]_vars

\* C23: translate tries the providers strictly in list order: a provider is
\* invoked for a call only after every provider ahead of it in this.providers
\* has failed for that call, and none is invoked twice; the offline dictionary
\* is always the last of the list however many providers addProvider has
\* registered; and the call rejects with 'All translation providers failed'
\* when the last of them has failed.
C23_ProviderOrder ==
    /\ [][ tOp' \in {"miss", "next"}
           => \A n \in 1..Len(tInflight') :
                 tInflight'[n].tried # TriedBefore(n)
                 => LET invoked == tInflight'[n].tried[Len(tInflight'[n].tried)]
                        failed  == Members(TriedBefore(n))
                    IN  /\ invoked \notin failed
                        /\ \A i \in 1..(PositionOf(providers', invoked) - 1) :
                              providers'[i] \in failed
         ]_vars
    /\ []Translate_OfflineLast
    /\ Translate_AllFailedRejects


----------------------------------------------------------------------------
\* Properties of the worker service

\* resolve or reject is called at most once per task
Worker_SettledOnce == \A id \in 1..Len(promises) : promises[id].calls <= 1

\* the tasks in the map are tasks whose promise is pending, and a promise that
\* has settled stays as it is: responses, error events, timeouts and terminate
\* that come later leave it alone
Worker_SettledIsFinal ==
    /\ [](\A id \in tasks : id \in 1..Len(promises) /\ promises[id].promise = <<>>)
    /\ [][ \A id \in 1..Len(promises) :
              promises[id].promise # <<>> => promises'[id] = promises[id] ]_vars

\* a task that is in the map when its timeout fires is deleted from the map
\* and rejected with 'Task timeout'
Worker_TimeoutOfMapped ==
    [][ \A id \in TaskIds :
           (Timeout(id) /\ id \in tasks)
           => /\ id \notin tasks'
              /\ promises'[id].promise = << Rejected("Task timeout") >>
      ]_vars

\* C24: a task still pending when its 60 s timeout fires is removed from the
\* map and its promise is rejected with 'Task timeout'; resolve or reject is
\* called at most once per task; a response that arrives after a timeout, a
\* worker error or terminate is ignored, and a timeout that fires after the
\* task was settled does nothing.
C24_TimeoutRejects ==
    /\ [][ \A id \in 1..Len(promises) :
              (Timeout(id) /\ promises[id].promise = <<>>)
              => /\ id \notin tasks'
                 /\ promises'[id].promise = << Rejected("Task timeout") >>
         ]_vars
    /\ []Worker_SettledOnce
    /\ Worker_SettledIsFinal

\* C30: every task submitted through executeTask is settled sooner or later,
\* its timeout having fired at the latest, whatever responses (SUCCESS, ERROR,
\* PROGRESS), worker errors and terminate calls occur: no promise stays
\* pending for ever. Timeouts that were set do fire.
C30_EventuallySettled ==
    \A id \in TaskIds :
        (Len(promises) >= id) ~> (Len(promises) >= id /\ promises[id].promise # <<>>)


----------------------------------------------------------------------------
\* Properties of the OCR cache

\* C26: the OCR cache never serves one image's result for another:
\* getCachedOCRResult(u, l) returns a value other than null only if an earlier
\* cacheOCRResult was made with the same image URL u and the same language l,
\* also for URLs that share a long prefix.
C26_OwnResultOnly ==
    [][ \A imageUrl \in ImageUrls, language \in Languages, now2 \in LaterReadings :
           (getCachedOCRResult(imageUrl, language, now2) /\ cRet' # <<>>)
           => <<imageUrl, language>> \in ocrCalls
      ]_vars


\* a value served for (u, l) was cached under the key derived from (u, l)
OCR_SameKeyOnly ==
    [][ \A imageUrl \in ImageUrls, language \in Languages, now2 \in LaterReadings :
           (getCachedOCRResult(imageUrl, language, now2) /\ cRet' # <<>>)
           => \E call \in ocrCalls : getCacheKey(call[1], call[2]) = getCacheKey(imageUrl, language)
      ]_vars


----------------------------------------------------------------------------
\* Further properties of the stores

\* the state after leaves the project and the history as they are now
SameDocument(after) ==
    /\ after.project = project
    /\ after.history = history
    /\ after.historyIndex = historyIndex

\* C27: an edit that targets a missing page or text box, or is made while no
\* project is loaded, is a complete no-op: updateTextBox, deleteTextBox and
\* addTextBox then leave the project and (history, historyIndex) unchanged.
\* Stated of the call made in any reachable state of either store.
C27_MissingTargetNoOp ==
    /\ \A pageId \in PageIds, textBoxId \in TextBoxIds, updates \in Updates :
          getTextBoxById(project, pageId, textBoxId) = <<>>
          => SameDocument(AfterUpdate(pageId, textBoxId, updates))
    /\ \A pageId \in PageIds, textBoxId \in TextBoxIds :
          getTextBoxById(project, pageId, textBoxId) = <<>>
          => SameDocument(AfterDelete(pageId, textBoxId))
    /\ \A pageId \in PageIds, textBox \in NewTextBoxes :
          ~PageExists(pageId) => SameDocument(AfterAdd(pageId, textBox))

\* updateTextBox and deleteTextBox on a missing target change nothing
Store_MissingBoxNoOp ==
    /\ \A pageId \in PageIds, textBoxId \in TextBoxIds, updates \in Updates :
          getTextBoxById(project, pageId, textBoxId) = <<>>
          => AfterUpdate(pageId, textBoxId, updates) = StoreState
    /\ \A pageId \in PageIds, textBoxId \in TextBoxIds :
          getTextBoxById(project, pageId, textBoxId) = <<>>
          => AfterDelete(pageId, textBoxId) = StoreState


\* the state either store is left in by addToHistory(action)
AfterAddToHistory(action) == StoreAdd(StoreState, action)

\* C28: the depth bound follows the current setting: once updateSettings has
\* lowered maxHistorySteps to M >= 1 below the length of the log, the next
\* addToHistory leaves history.length <= M.
\* Stated of the call made in any reachable state of either store.
C28_BoundFollowsSetting ==
    (settings.maxHistorySteps >= 1 /\ settings.maxHistorySteps < Len(history))
    => Len(AfterAddToHistory(MoveAction).history) <= settings.maxHistorySteps

\* the history part of a store state
HistoryOf(st) == <<st.history, st.historyIndex>>

\* C29: the two stores are observationally equivalent on history: with the
\* same maxHistorySteps >= 1 and the same log within that bound, addToHistory,
\* undo, redo and clearHistory leave both with the same (history,
\* historyIndex), again within the bound, and undo and redo return the same
\* value; so they agree after every step of every sequence of these calls.
C29_StoresAgree ==
    (settings.maxHistorySteps >= 1 /\ Len(history) <= settings.maxHistorySteps)
    => /\ HistoryOf(basic_addToHistory(StoreState, MoveAction))
             = HistoryOf(optimized_addToHistory(StoreState, MoveAction))
       /\ Len(optimized_addToHistory(StoreState, MoveAction).history)
             <= settings.maxHistorySteps
       /\ HistoryOf(basic_undo(StoreState).st) = HistoryOf(optimized_undo(StoreState).st)
       /\ basic_undo(StoreState).ret = optimized_undo(StoreState).ret
       /\ HistoryOf(basic_redo(StoreState).st) = HistoryOf(optimized_redo(StoreState).st)
       /\ basic_redo(StoreState).ret = optimized_redo(StoreState).ret

\* the optimized store after an addToHistory at the tip of a full log of
\* MaxSteps actions: the call dropped the oldest action or filled the log,
\* and the next one takes the overflow branch
C29_Witness ==
    /\ variant = "optimized"
    /\ settings.maxHistorySteps = MaxSteps
    /\ Len(history) = MaxSteps
    /\ historyIndex = MaxSteps - 1
    /\ history[MaxSteps] = MoveAction
    /\ project # <<>>


\* a task that is out of the map with its promise pending stays so for ever,
\* whatever the worker, the timeouts and the callers do next
Worker_DroppedStaysPending ==
    [][ \A id \in 1..Len(promises) :
           (id \notin tasks /\ promises[id].promise = <<>>)
           => (id \notin tasks' /\ promises'[id].promise = <<>>)
      ]_vars

====
